---- MODULE Spec2Model ----
(***************************************************************************)
(* PULSY agentic interface: the ReAct loop of AgenticRAG                   *)
(* (agentic_interface/Agentic_RAG/agent.py).                               *)
(*                                                                         *)
(* One AgenticRAG instance serves every request (main_agent.py:55).  A     *)
(* request is one call of run(): it builds the message history, awaits the *)
(* user's preferences and device key, invokes the compiled LangGraph graph *)
(* (reasoner -> tools_condition -> tools -> reasoner ... -> END), logs the  *)
(* turn and returns {"response", "log_id"}.                                *)
(*                                                                         *)
(* Python values are modelled as follows.  A message is a record           *)
(* [role, content, tool_calls, tool_call_id, name]; content is a sequence  *)
(* of strings (the pieces of the f-string), so content = << >> is the      *)
(* empty string ''.  Indexes kept by the code (query_idx) are 0-based as   *)
(* in the code; TLA+ sequences are 1-based.                                *)
(***************************************************************************)
EXTENDS Integers, Sequences, FiniteSets, TLC

\* ------------------------------------------------------------------ bounds
\* recursion limit of graph.invoke (langgraph's default is 25; run() passes no
\* config, agent.py:242).  Scaled down, and odd like the default: the loop is
\* uniform in the limit up to its parity.
RecursionLimit == 3
\* longest query_history / response_history drawn for create_message_history
MaxHist == 3

\* hard stop of the model's step counter, never reached by the code
MaxSteps == RecursionLimit + 2

Requests == {1, 2}

\* ------------------------------------------------------------- variables
VARIABLES
    agent,            \* the shared AgenticRAG instance: tools, sys_msg, messageHistory
    users_staging,    \* DB table users.users_staging, one row (or none) per user
    logger_final,     \* DB table logging.logger_final: the InteractionLogs, id = position
    inp,              \* per request: the arguments of run()
    pc,               \* per request: position in run()
    message_history,  \* per request: run()'s local message_history
    chatml,           \* per request: run()'s local chatml_conversation
    user_preferences, \* per request: run()'s local user_preferences
    query_idx,        \* per request: run()'s local query_idx (0-based)
    messages,         \* per request: the graph state's "messages" channel
    steps,            \* per request: supersteps the graph has executed
    outcome,          \* per request: what run() returned or raised
    hq, hr, hout,     \* a stand-alone call of create_message_history and its result
    evals,            \* the evaluation pipeline: position in evals_run and its locals
    tin,              \* a stand-alone call of a tool or of the validator: its arguments
    tout              \* ... and what it did and returned

vars == <<agent, users_staging, logger_final, inp, pc, message_history, chatml,
          user_preferences, query_idx, messages, steps, outcome, hq, hr, hout,
                   evals, tin, tout>>

reqvars == <<agent, users_staging, logger_final, inp, pc, message_history, chatml,
             user_preferences, query_idx, messages, steps, outcome>>

\* ---------------------------------------------------------------- messages
\* "no id": a message that has not entered a graph state, a message that answers
\* no tool call
NoId == 0

Message(role, content) ==
    [role |-> role, content |-> content, tool_calls |-> << >>,
     tool_call_id |-> NoId, name |-> "", id |-> NoId]

SystemMessage(content) == Message("system", content)
HumanMessage(content) == Message("human", content)
\* AIMessage(content=..., tool_calls=...)
AIMessage(content, tool_calls) ==
    [role |-> "ai", content |-> content, tool_calls |-> tool_calls,
     tool_call_id |-> NoId, name |-> "", id |-> NoId]
ToolMessage(content, name, tool_call_id) ==
    [role |-> "tool", content |-> content, tool_calls |-> << >>,
     tool_call_id |-> tool_call_id, name |-> name, id |-> NoId]
\* a bare str placed in a message list (run() puts date_message in as a str)
StrItem(content) == Message("str", content)

\* langchain's coercion of the graph input: a str becomes a HumanMessage, a
\* message object is kept as it is
convert_to_messages(ms) ==
    [i \in 1..Len(ms) |->
        IF ms[i].role = "str" THEN HumanMessage(ms[i].content) ELSE ms[i]]

\* the messages without the ids the graph state gave them
strip_ids(ms) == [i \in 1..Len(ms) |-> [ms[i] EXCEPT !.id = NoId]]

Last(s) == s[Len(s)]
IsPrefix(s, t) == Len(s) <= Len(t) /\ SubSeq(t, 1, Len(s)) = s

SYSTEM_PROMPT == <<"Agentic_RAG/system_instructions.md">>
user_specific_message == "My name and user_key is: "
current_date == "2026-11-06"
date_message == <<"Today's date is: ", current_date>>

\* ------------------------------------------------- create_message_history
\* mutant: off by one, the last response is dropped
has_response_short(response_history, i) == Len(response_history) > i + 1

\* the test "len(response_history) > i" for the 0-based loop index i
has_response(response_history, i) == Len(response_history) > i

RECURSIVE history_upto(_, _, _)
\* the two lists after the first n iterations of the for loop
history_upto(query_history, response_history, n) ==
    IF n = 0 THEN [messages |-> << >>, chatml |-> << >>]
    ELSE LET prev == history_upto(query_history, response_history, n - 1)
             i == n - 1
             withq == [messages |-> Append(prev.messages,
                                           HumanMessage(<<query_history[i + 1]>>)),
                       chatml |-> Append(prev.chatml,
                                         [role |-> "user",
                                          content |-> <<query_history[i + 1]>>])]
         IN IF has_response(response_history, i)
            THEN [messages |-> Append(withq.messages,
                                      AIMessage(<<response_history[i + 1]>>, << >>)),
                  chatml |-> Append(withq.chatml,
                                    [role |-> "assistant",
                                     content |-> <<response_history[i + 1]>>])]
            ELSE withq

create_message_history(query_history, response_history) ==
    history_upto(query_history, response_history, Len(query_history))

\* ------------------------------------------------------------ the graph
\* mutant: a state channel without the reducer, each write replaces the list
add_messages_replace(left, right) ==
    [i \in 1..Len(right) |-> IF right[i].id = NoId THEN [right[i] EXCEPT !.id = i] ELSE right[i]]

\* MessagesState's reducer: a message whose id is already in the state replaces
\* that message where it stands, any other message is appended in its order
\* (and given an id if it has none)
add_messages(left, right) ==
    LET known(m) == m.id # NoId /\ \E i \in 1..Len(left) : left[i].id = m.id
        unknown(m) == ~known(m)
        merged == [i \in 1..Len(left) |->
                     LET S == {j \in 1..Len(right) : right[j].id = left[i].id}
                     IN IF S = {} THEN left[i]
                        ELSE right[CHOOSE j \in S : \A k \in S : k <= j]]
        fresh == SelectSeq(right, unknown)
    IN merged \o [k \in 1..Len(fresh) |->
                     IF fresh[k].id = NoId THEN [fresh[k] EXCEPT !.id = Len(left) + k]
                     ELSE fresh[k]]

\* mutant: the reasoner hands back copies of the prior messages (no ids)
reasoner_copies(prior_messages, response) ==
    [i \in 1..Len(prior_messages) |-> [prior_messages[i] EXCEPT !.id = NoId]] \o <<response>>

\* what the reasoner node returns for the "messages" channel (agent.py:173)
reasoner(prior_messages, response) == prior_messages \o <<response>>

\* mutant: a conditional edge that always ends the run
tools_condition_end(state_messages) == "__end__"

\* langgraph.prebuilt.tools_condition, the conditional edge of build_graph
tools_condition(state_messages) ==
    IF Len(Last(state_messages).tool_calls) > 0 THEN "tools" ELSE "__end__"

\* mutant: no limit on the supersteps
out_of_steps_never(step, limit) == FALSE

\* the graph stops with GraphRecursionError when another superstep is due after
\* recursion_limit supersteps
out_of_steps(step, limit) == step >= limit

\* ---- the reasoning capability (self.llm_with_tools.invoke), a black box:
\* its answer is a function of nothing but the messages it is given
context_key(prior) ==
    LET S == {i \in 1..Len(prior) : prior[i].role = "system" /\ Len(prior[i].content) = 4}
    IN IF S = {} THEN "USER_KEY" ELSE prior[CHOOSE i \in S : TRUE].content[4]

last_query(prior) ==
    LET S == {i \in 1..Len(prior) : prior[i].role = "human"}
    IN IF S = {} THEN "" ELSE prior[CHOOSE i \in S : \A j \in S : j <= i].content[1]

ToolCall(id, name, args) == [id |-> id, name |-> name, args |-> args]
device_args(prior) ==
    [start_date |-> "2025-10-03", end_date |-> "2025-10-04", user_key |-> context_key(prior)]
\* ids of the tool calls of one answer: fresh in the conversation
call_id(prior, k) == 10 * Len(prior) + k

llm_invoke(prior) ==
    { AIMessage(<<"answer to ", last_query(prior)>>, << >>),
      AIMessage(<< >>, << >>),
      AIMessage(<< >>, <<ToolCall(call_id(prior, 1), "get_sleep_data", device_args(prior))>>),
      AIMessage(<< >>, <<ToolCall(call_id(prior, 1), "get_heart_rate_data", device_args(prior)),
                         ToolCall(call_id(prior, 2), "get_Andrew_Huberman_Insights",
                                  [query |-> last_query(prior)])>>),
      AIMessage(<<"let me look at ", last_query(prior)>>,
                <<ToolCall(call_id(prior, 1), "get_stress_data", device_args(prior))>>) }

\* ---- ToolNode(self.tools): one ToolMessage per tool call of the last
\* message, in the order of the calls, carrying the call's id and name
ToolOutcomes == {"data", "diagnostic"}
tool_output(call, result) ==
    IF "user_key" \in DOMAIN call.args
    THEN <<result, call.name, call.args.user_key>>
    ELSE <<result, call.name, call.args.query>>

\* mutant: only the first tool call of the message is executed
tool_node_first(state_messages, results) ==
    LET calls == Last(state_messages).tool_calls
    IN <<ToolMessage(tool_output(calls[1], results[1]), calls[1].name, calls[1].id)>>

tool_node(state_messages, results) ==
    LET calls == Last(state_messages).tool_calls
    IN [k \in 1..Len(calls) |->
            ToolMessage(tool_output(calls[k], results[k]), calls[k].name, calls[k].id)]

\* ---------------------------------------------------------------- run()
\* Python's None where a list or a row is expected
None == [tag |-> "None"]
List(v) == [tag |-> "list", v |-> v]

\* mutant: the history is built in place on the instance's own list
run_build_context_shared(self, user_id, query_history, response_history) ==
    LET conv == create_message_history(query_history, response_history)
        h == self.messageHistory
                 \o <<StrItem(date_message), SystemMessage(<<user_specific_message, user_id>>)>>
                 \o conv.messages
    IN [self |-> [self EXCEPT !.messageHistory = h],
        message_history |-> h,
        chatml |-> conv.chatml]

\* agent.py:203-216: the local message_history up to the prior turns; self is
\* read (sys_msg) and handed back as the code leaves it
run_build_context(self, user_id, query_history, response_history) ==
    LET conv == create_message_history(query_history, response_history)
    IN [self |-> self,
        message_history |->
            <<self.sys_msg, StrItem(date_message),
              SystemMessage(<<user_specific_message, user_id>>)>> \o conv.messages,
        chatml |-> conv.chatml]

\* UserDbOperations.get_agentic_preferences: cursor.fetchone(), the row of the
\* user (a 1-tuple holding the preferences column) or None
get_agentic_preferences(table, username) ==
    IF table[username].exists
    THEN [tag |-> "row", preferences |-> table[username].preferences]
    ELSE None

\* str() of the preferences column inside the f-string
str_of(value) == IF value.tag = "None" THEN <<"None">> ELSE value.v

\* agent.py:219-227
run_add_preferences(history, row) ==
    IF row.tag # "None"
    THEN [message_history |->
              Append(history, SystemMessage(<<"User preferences: ">> \o str_of(row.preferences))),
          user_preferences |-> row.preferences]
    ELSE [message_history |-> history, user_preferences |-> List(<< >>)]

\* mutant: the index is taken before the query is appended
run_add_query_early(history, user_id, user_key, query) ==
    LET h == history
             \o <<SystemMessage(<<user_specific_message, user_id, " USER_KEY: ", user_key>>)>>
    IN [message_history |-> h \o <<HumanMessage(<<query>>)>>, query_idx |-> Len(h) - 1]

\* agent.py:231-238: the key message, the query, and the turn boundary
run_add_query(history, user_id, user_key, query) ==
    LET h == history
             \o <<SystemMessage(<<user_specific_message, user_id, " USER_KEY: ", user_key>>)>>
             \o <<HumanMessage(<<query>>)>>
    IN [message_history |-> h, query_idx |-> Len(h) - 1]

\* -------------------------------------------------------- log_message()
\* mutant: the arguments are logged as the model produced them
redact_nothing(args) == args

\* agent.py:366-367
redact(args) ==
    IF "user_key" \in DOMAIN args THEN [args EXCEPT !.user_key = "USER_KEY"] ELSE args

\* agent.py:352-368: the announcement event of an assistant message
tool_chatml_format(message) ==
    [role |-> "assistant",
     tool_calls |-> [k \in 1..Len(message.tool_calls) |->
                        [id |-> message.tool_calls[k].id,
                         name |-> message.tool_calls[k].name,
                         function |-> [arguments |-> redact(message.tool_calls[k].args),
                                       name |-> message.tool_calls[k].name]]]]

\* agent.py:371-376
tool_response_chatml_format(message) ==
    [role |-> "tool", tool_call_id |-> message.tool_call_id,
     name |-> message.name, content |-> message.content]

\* agent.py:350: which assistant messages are logged as tool-call announcements
is_tool_call_message(message) == message.role = "ai" /\ message.content = << >>

RECURSIVE response_events(_)
\* agent.py:349-377: the events of the messages, in the order of the loop
response_events(ms) ==
    IF ms = << >> THEN << >>
    ELSE LET message == Head(ms)
         IN (IF is_tool_call_message(message) THEN <<tool_chatml_format(message)>> ELSE << >>)
            \o (IF message.role = "tool" THEN <<tool_response_chatml_format(message)>>
                ELSE << >>)
            \o response_events(Tail(ms))

\* messages['messages'][query_idx:] for the 0-based query_idx
slice_from(ms, idx) == SubSeq(ms, idx + 1, Len(ms))

RECURSIVE join(_)
\* "\n".join(preferences)
join(strs) ==
    IF Len(strs) <= 1 THEN strs ELSE <<Head(strs), "\n">> \o join(Tail(strs))

\* mutant: the final answer is logged first, the events of the turn after it
log_message_answer_first(query, response, message_hist, idx, state_messages, user_spec, preferences) ==
    [message_id |-> idx,
     prompt |-> <<[role |-> "user", content |-> <<query>>]>>,
     response |-> <<[role |-> "assistant", content |-> response.content]>>
                  \o response_events(slice_from(state_messages, idx)),
     system_prompt |-> SYSTEM_PROMPT,
     message_history |-> message_hist
                         \o <<[role |-> "system", content |-> user_spec]>>
                         \o <<[role |-> "system", content |-> join(preferences.v)]>>]

\* agent.py:320-383: the Logger handed to the database
log_message(query, response, message_hist, idx, state_messages, user_spec, preferences) ==
    [message_id |-> idx,
     prompt |-> <<[role |-> "user", content |-> <<query>>]>>,
     response |-> response_events(slice_from(state_messages, idx))
                  \o <<[role |-> "assistant", content |-> response.content]>>,
     system_prompt |-> SYSTEM_PROMPT,
     message_history |-> message_hist
                         \o <<[role |-> "system", content |-> user_spec]>>
                         \o <<[role |-> "system", content |-> join(preferences.v)]>>]

\* agent.py:253
user_spec_of_run == date_message \o <<" ", user_specific_message, "USER_KEY">>

\* agent.py:361,367: the logged arguments are the message's own dict, so the
\* redaction shows in the message too
redact_in_place(ms, idx) ==
    [i \in 1..Len(ms) |->
        IF i > idx /\ is_tool_call_message(ms[i])
        THEN [ms[i] EXCEPT !.tool_calls =
                 [k \in 1..Len(ms[i].tool_calls) |->
                     [ms[i].tool_calls[k] EXCEPT !.args = redact(ms[i].tool_calls[k].args)]]]
        ELSE ms[i]]

\* ------------------------------------------------------------ initial state
\* AgenticRAG.__init__ (agent.py:80-97)
sys_msg_of_init == SystemMessage(<<"system instructions">>)
AgentInit ==
    [tools |-> <<"get_heart_rate_data", "get_sleep_data", "get_stress_data",
                 "get_Andrew_Huberman_Insights">>,
     sys_msg |-> sys_msg_of_init,
     messageHistory |-> <<sys_msg_of_init>>]

UserOf(r) == IF r = 1 THEN "u1" ELSE "u2"
QueryOf(r) == IF r = 1 THEN "q1" ELSE "q2"
KeyOf(u) == IF u = "u1" THEN "k1" ELSE "k2"
Users == {UserOf(r) : r \in Requests}

\* a row of users.users_staging: absent, preferences NULL, or a preference list
NoRow == [exists |-> FALSE, preferences |-> None, access_token |-> ""]
Row(u, prefs) == [exists |-> TRUE, preferences |-> prefs, access_token |-> KeyOf(u)]
PrefsOf(u) == IF u = "u1" THEN <<"p1", "p2">> ELSE <<"p3">>
RowOptions(u) == {NoRow, Row(u, None), Row(u, List(PrefsOf(u)))}

\* the (query_history, response_history) pairs a request is run with
HistoryOptions ==
    { <<<< >>, << >>>>, <<<<"h1">>, <<"a1">>>>, <<<<"h1", "h2">>, <<"a1">>>> }

Input(r, h) ==
    [query |-> QueryOf(r), user_id |-> UserOf(r),
     query_history |-> h[1], response_history |-> h[2]]

Pending == [kind |-> "pending"]
Returned(response, log_id) == [kind |-> "return", response |-> response, log_id |-> log_id]
Raised(error) == [kind |-> "raise", error |-> error]

LocalsInit ==
    /\ message_history = [r \in Requests |-> << >>]
    /\ chatml = [r \in Requests |-> << >>]
    /\ user_preferences = [r \in Requests |-> None]
    /\ query_idx = [r \in Requests |-> 0]
    /\ messages = [r \in Requests |-> << >>]
    /\ steps = [r \in Requests |-> 0]
    /\ outcome = [r \in Requests |-> Pending]

HistOff ==
    /\ hq = << >>
    /\ hr = << >>
    /\ hout = [done |-> TRUE, messages |-> << >>, chatml |-> << >>]

\* no evaluation run and no stand-alone tool call
CallsOff ==
    /\ evals = [pc |-> "off"]
    /\ tin = [tool |-> "none"]
    /\ tout = [done |-> TRUE]

\* one request in flight, with any of the inputs and any of the rows
Init ==
    /\ agent = AgentInit
    /\ logger_final = << >>
    /\ \E row \in RowOptions(UserOf(1)) :
           users_staging = [u \in Users |-> IF u = UserOf(1) THEN row ELSE NoRow]
    /\ \E h \in HistoryOptions :
           inp = [r \in Requests |-> Input(r, IF r = 1 THEN h ELSE <<<< >>, << >>>>)]
    /\ pc = [r \in Requests |-> IF r = 1 THEN "start" ELSE "idle"]
    /\ LocalsInit
    /\ HistOff
    /\ CallsOff

\* two requests in flight on the one instance
InitConc ==
    /\ agent = AgentInit
    /\ logger_final = << >>
    /\ \E row \in RowOptions(UserOf(2)) \ {NoRow} :
           users_staging = [u \in Users |->
                               IF u = UserOf(1) THEN Row(u, List(PrefsOf(u))) ELSE row]
    /\ inp = [r \in Requests |->
                 Input(r, IF r = 1 THEN <<<<"h1">>, <<"a1">>>> ELSE <<<<"h3">>, << >>>>)]
    /\ pc = [r \in Requests |-> "start"]
    /\ LocalsInit
    /\ HistOff
    /\ CallsOff

\* ------------------------------------------------------------------ actions
Fail(r, error) ==
    /\ pc' = [pc EXCEPT ![r] = "failed"]
    /\ outcome' = [outcome EXCEPT ![r] = Raised(error)]

\* run(), agent.py:203-216
BuildContext(r) ==
    /\ pc[r] = "start"
    /\ LET res == run_build_context(agent, inp[r].user_id, inp[r].query_history,
                                     inp[r].response_history)
       IN /\ agent' = res.self
          /\ message_history' = [message_history EXCEPT ![r] = res.message_history]
          /\ chatml' = [chatml EXCEPT ![r] = res.chatml]
    /\ pc' = [pc EXCEPT ![r] = "prefs"]
    /\ UNCHANGED <<users_staging, logger_final, inp, user_preferences, query_idx,
                   messages, steps, outcome, hq, hr, hout,
                   evals, tin, tout>>

\* run(), agent.py:219-227: the await of get_agentic_preferences returned
GetPreferences(r) ==
    /\ pc[r] = "prefs"
    /\ LET res == run_add_preferences(message_history[r],
                                       get_agentic_preferences(users_staging, inp[r].user_id))
       IN /\ message_history' = [message_history EXCEPT ![r] = res.message_history]
          /\ user_preferences' = [user_preferences EXCEPT ![r] = res.user_preferences]
    /\ pc' = [pc EXCEPT ![r] = "key"]
    /\ UNCHANGED <<agent, users_staging, logger_final, inp, chatml, query_idx,
                   messages, steps, outcome, hq, hr, hout,
                   evals, tin, tout>>

\* the database call of agent.py:219 raised (no connection)
GetPreferencesFail(r) ==
    /\ pc[r] = "prefs"
    /\ Fail(r, "DatabaseError")
    /\ UNCHANGED <<agent, users_staging, logger_final, inp, message_history, chatml,
                   user_preferences, query_idx, messages, steps, hq, hr, hout,
                   evals, tin, tout>>

\* run(), agent.py:231-242: the key arrived; the query is appended, the turn
\* boundary recorded and the graph entered (START -> reasoner)
GetDeviceApiKey(r) ==
    /\ pc[r] = "key"
    /\ users_staging[inp[r].user_id].exists
    /\ LET res == run_add_query(message_history[r], inp[r].user_id,
                                 users_staging[inp[r].user_id].access_token, inp[r].query)
       IN /\ message_history' = [message_history EXCEPT ![r] = res.message_history]
          /\ query_idx' = [query_idx EXCEPT ![r] = res.query_idx]
          /\ messages' = [messages EXCEPT ![r] =
                              add_messages(<< >>, convert_to_messages(res.message_history))]
    /\ steps' = [steps EXCEPT ![r] = 0]
    /\ pc' = [pc EXCEPT ![r] = "reasoner"]
    /\ UNCHANGED <<agent, users_staging, logger_final, inp, chatml, user_preferences,
                   outcome, hq, hr, hout,
                   evals, tin, tout>>

\* get_api_key raised: access_token[0] on a user without a row
\* (user_db_call.py:192-193), or no connection
GetDeviceApiKeyFail(r) ==
    /\ pc[r] = "key"
    /\ \/ ~users_staging[inp[r].user_id].exists /\ Fail(r, "TypeError")
       \/ Fail(r, "DatabaseError")
    /\ UNCHANGED <<agent, users_staging, logger_final, inp, message_history, chatml,
                   user_preferences, query_idx, messages, steps, hq, hr, hout,
                   evals, tin, tout>>

\* the reasoner node (agent.py:148-173) and its conditional edge
Reasoner(r) ==
    /\ pc[r] = "reasoner"
    /\ ~out_of_steps(steps[r], RecursionLimit)
    /\ steps[r] < MaxSteps
    /\ \E response \in llm_invoke(messages[r]) :
          LET new == add_messages(messages[r], reasoner(messages[r], response))
          IN /\ messages' = [messages EXCEPT ![r] = new]
             /\ pc' = [pc EXCEPT ![r] =
                           IF tools_condition(new) = "tools" THEN "tools" ELSE "finalize"]
    /\ steps' = [steps EXCEPT ![r] = @ + 1]
    /\ UNCHANGED <<agent, users_staging, logger_final, inp, message_history, chatml,
                   user_preferences, query_idx, outcome, hq, hr, hout,
                   evals, tin, tout>>

\* self.llm_with_tools.invoke raised inside the reasoner node
ReasonerFail(r) ==
    /\ pc[r] = "reasoner"
    /\ ~out_of_steps(steps[r], RecursionLimit)
    /\ steps[r] < MaxSteps
    /\ Fail(r, "LLMError")
    /\ UNCHANGED <<agent, users_staging, logger_final, inp, message_history, chatml,
                   user_preferences, query_idx, messages, steps, hq, hr, hout,
                   evals, tin, tout>>

\* the tools node, ToolNode(self.tools)
Tools(r) ==
    /\ pc[r] = "tools"
    /\ ~out_of_steps(steps[r], RecursionLimit)
    /\ steps[r] < MaxSteps
    /\ \E results \in [1..Len(Last(messages[r]).tool_calls) -> ToolOutcomes] :
          messages' = [messages EXCEPT ![r] =
                          add_messages(messages[r], tool_node(messages[r], results))]
    /\ steps' = [steps EXCEPT ![r] = @ + 1]
    /\ pc' = [pc EXCEPT ![r] = "reasoner"]
    /\ UNCHANGED <<agent, users_staging, logger_final, inp, message_history, chatml,
                   user_preferences, query_idx, outcome, hq, hr, hout,
                   evals, tin, tout>>

\* graph.invoke raised GraphRecursionError: a node is due and the limit is used up
GraphRecursion(r) ==
    /\ pc[r] \in {"reasoner", "tools"}
    /\ out_of_steps(steps[r], RecursionLimit)
    /\ Fail(r, "GraphRecursionError")
    /\ UNCHANGED <<agent, users_staging, logger_final, inp, message_history, chatml,
                   user_preferences, query_idx, messages, steps, hq, hr, hout,
                   evals, tin, tout>>

\* run(), agent.py:243-261 with log_message (315-386): the log is written and
\* the response returned
LogMessage(r) ==
    /\ pc[r] = "finalize"
    /\ user_preferences[r].tag = "list"
    /\ LET logger == log_message(inp[r].query, Last(messages[r]), chatml[r], query_idx[r],
                                  messages[r], user_spec_of_run, user_preferences[r])
           log_id == Len(logger_final) + 1
           final == redact_in_place(messages[r], query_idx[r])
       IN /\ logger_final' = Append(logger_final, logger)
          /\ chatml' = [chatml EXCEPT ![r] = logger.message_history]
          /\ messages' = [messages EXCEPT ![r] = final]
          /\ outcome' = [outcome EXCEPT ![r] = Returned(Last(final).content, log_id)]
    /\ pc' = [pc EXCEPT ![r] = "done"]
    /\ UNCHANGED <<agent, users_staging, inp, message_history, user_preferences,
                   query_idx, steps, hq, hr, hout,
                   evals, tin, tout>>

\* log_message raised: "\n".join(None) (agent.py:345), or the insert failed
LogMessageFail(r) ==
    /\ pc[r] = "finalize"
    /\ \/ user_preferences[r].tag = "None" /\ Fail(r, "TypeError")
       \/ Fail(r, "DatabaseError")
    /\ UNCHANGED <<agent, users_staging, logger_final, inp, message_history, chatml,
                   user_preferences, query_idx, messages, steps, hq, hr, hout,
                   evals, tin, tout>>

Next ==
    \E r \in Requests :
        \/ BuildContext(r)
        \/ GetPreferences(r)
        \/ GetPreferencesFail(r)
        \/ GetDeviceApiKey(r)
        \/ GetDeviceApiKeyFail(r)
        \/ Reasoner(r)
        \/ ReasonerFail(r)
        \/ Tools(r)
        \/ GraphRecursion(r)
        \/ LogMessage(r)
        \/ LogMessageFail(r)

Spec == Init /\ [][Next]_vars

SpecConc == InitConc /\ [][Next]_vars

\* ---- a reasoning capability that requests a tool call at every REASON step
\* and never fails; run() runs to its end (weak fairness of its steps)
ReasonerTools(r) ==
    /\ Reasoner(r)
    /\ Len(Last(messages'[r]).tool_calls) > 0

NextAlwaysTools ==
    \E r \in Requests :
        \/ BuildContext(r)
        \/ GetPreferences(r)
        \/ GetPreferencesFail(r)
        \/ GetDeviceApiKey(r)
        \/ GetDeviceApiKeyFail(r)
        \/ ReasonerTools(r)
        \/ Tools(r)
        \/ GraphRecursion(r)

SpecAlwaysTools == Init /\ [][NextAlwaysTools]_vars /\ WF_vars(NextAlwaysTools)

\* ---- a stand-alone call of create_message_history on any two lists
HistoryStrings == {"a", "b"}
RECURSIVE SeqsUpTo(_, _)
SeqsUpTo(S, n) ==
    IF n = 0 THEN {<< >>}
    ELSE SeqsUpTo(S, n - 1) \cup {Append(q, x) : q \in SeqsUpTo(S, n - 1), x \in S}

InitHist ==
    /\ agent = AgentInit
    /\ logger_final = << >>
    /\ users_staging = [u \in Users |-> NoRow]
    /\ inp = [r \in Requests |-> Input(r, <<<< >>, << >>>>)]
    /\ pc = [r \in Requests |-> "idle"]
    /\ LocalsInit
    /\ hq \in SeqsUpTo(HistoryStrings, MaxHist)
    /\ hr \in SeqsUpTo(HistoryStrings, MaxHist)
    /\ hout = [done |-> FALSE, messages |-> << >>, chatml |-> << >>]
    /\ CallsOff

\* create_message_history(hq, hr) returns (agent.py:263-304)
CreateMessageHistory ==
    /\ ~hout.done
    /\ LET res == create_message_history(hq, hr)
       IN hout' = [done |-> TRUE, messages |-> res.messages, chatml |-> res.chatml]
    /\ UNCHANGED <<reqvars, hq, hr, evals, tin, tout>>

NextHist == CreateMessageHistory

SpecHist == InitHist /\ [][NextHist]_vars

\* ==================================================================== claims
InGraph(r) == pc[r] \in {"reasoner", "tools"}

\* C1: after a REASON step the next step is tool dispatch if and only if the
\* assistant message just appended carries at least one tool-call request;
\* otherwise the run ends (FINALIZE) with that message as the last message, and
\* no further graph step follows.
C1_ReasonTransition ==
    [][\A r \in Requests :
          /\ (pc[r] = "reasoner" /\ messages'[r] # messages[r]) =>
                /\ Len(messages'[r]) = Len(messages[r]) + 1
                /\ Last(messages'[r]).role = "ai"
                /\ (pc'[r] = "tools") <=> (Len(Last(messages'[r]).tool_calls) >= 1)
                /\ (pc'[r] = "finalize") <=> (Len(Last(messages'[r]).tool_calls) = 0)
          /\ (pc[r] = "finalize") =>
                /\ pc'[r] \in {"finalize", "done", "failed"}
                /\ Len(messages'[r]) = Len(messages[r])
                /\ Last(messages'[r]).content = Last(messages[r]).content
      ]_vars

\* a run that dispatched tools after its first REASON step and ended after its second
C1_Witness ==
    \E r \in Requests :
        /\ pc[r] = "finalize" /\ steps[r] = 3
        /\ Len(messages[r][Len(messages[r]) - 2].tool_calls) >= 1
        /\ Last(messages[r]).tool_calls = << >>

\* C5: across every step of the reasoning loop (reasoner, tool dispatch) the
\* message sequence before the step is a prefix of the sequence after it.
C5_AppendOnly ==
    [][\A r \in Requests : InGraph(r) => IsPrefix(messages[r], messages'[r])]_vars

\* tool results have been appended behind an assistant message and a second
\* assistant message behind them
C5_Witness ==
    \E r \in Requests :
        /\ steps[r] = 3
        /\ Last(messages[r]).role = "ai"
        /\ messages[r][Len(messages[r]) - 1].role = "tool"

\* C6: when the first REASON step returns a final message (no tool-call
\* request), the final conversation state is the state built by BUILD_CONTEXT
\* (the message list handed to the graph) plus exactly one assistant message,
\* with no tool-result message after the turn boundary.
C6_ToolFreeRoundTrip ==
    \A r \in Requests :
        (pc[r] \in {"finalize", "done"} /\ steps[r] = 1) =>
            LET ms == strip_ids(messages[r])
                n == Len(message_history[r])
            IN /\ Len(ms) = n + 1
               /\ SubSeq(ms, 1, n) = convert_to_messages(message_history[r])
               /\ ms[n + 1].role = "ai"
               /\ ms[n + 1].tool_calls = << >>
               /\ \A i \in (query_idx[r] + 1)..Len(ms) : ms[i].role # "tool"

\* a tool-free request with prior turns and preferences has returned
C6_Witness ==
    \E r \in Requests :
        /\ pc[r] = "done" /\ steps[r] = 1
        /\ inp[r].query_history # << >>
        /\ Len(messages[r]) = Len(message_history[r]) + 1

Min(a, b) == IF a <= b THEN a ELSE b

\* C7: create_message_history pairs query i with response i: the output holds,
\* for each i in order, user message i followed by assistant message i when
\* response i exists; with one response fewer than queries only the final query
\* is unpaired and the roles alternate up to it; the message list and the
\* ChatML list have the same length and roles.
C7_HistoryPairing ==
    hout.done =>
        LET out == hout.messages
            n == Len(hq)
            m == Min(Len(hr), Len(hq))
        IN /\ Len(out) = n + m
           /\ \A i \in 1..n :
                 LET p == IF i <= m THEN 2 * i - 1 ELSE m + i
                 IN /\ out[p] = HumanMessage(<<hq[i]>>)
                    /\ (i <= m) => out[p + 1] = AIMessage(<<hr[i]>>, << >>)
           /\ (n >= 1 /\ Len(hr) = n - 1) =>
                 /\ \A p \in 1..Len(out) :
                       out[p].role = IF p % 2 = 1 THEN "human" ELSE "ai"
                 /\ Last(out) = HumanMessage(<<hq[n]>>)
           /\ Len(hout.chatml) = Len(out)
           /\ \A p \in 1..Len(out) :
                 /\ hout.chatml[p].role = (IF out[p].role = "human" THEN "user" ELSE "assistant")
                 /\ hout.chatml[p].content = out[p].content

\* three queries with two responses have been converted
C7_Witness ==
    /\ hout.done
    /\ Len(hq) = 3 /\ Len(hr) = 2
    /\ Len(hout.messages) = 5

\* the messages run() put before the query: context and prior turns
ContextMessages(r) ==
    {convert_to_messages(message_history[r])[i] : i \in 1..(Len(message_history[r]) - 1)}

\* C8: query_idx is the index of the current query message in the conversation
\* state, when the graph is entered and ever after; the slice of the message
\* sequence from that index is the current query followed only by assistant
\* and tool-result messages of this turn, never a context or prior-turn message.
C8_TurnBoundary ==
    \A r \in Requests :
        (messages[r] # << >>) =>
            LET ms == strip_ids(messages[r])
                turn == slice_from(ms, query_idx[r])
            IN /\ query_idx[r] + 1 \in 1..Len(ms)
               /\ query_idx[r] + 1 = Len(message_history[r])
               /\ turn[1] = HumanMessage(<<inp[r].query>>)
               /\ \A i \in 2..Len(turn) :
                     /\ turn[i].role \in {"ai", "tool"}
                     /\ turn[i] \notin ContextMessages(r)
               /\ \A i \in 1..query_idx[r] : ms[i] \in ContextMessages(r)

\* a request with prior turns and preferences finished a turn with tool calls
C8_Witness ==
    \E r \in Requests :
        /\ pc[r] = "done" /\ steps[r] = 3
        /\ inp[r].response_history # << >>
        /\ user_preferences[r] # List(<< >>)
        /\ Len(slice_from(messages[r], query_idx[r])) >= 4

\* ---- tool-call requests and their results in a message sequence
\* the requests of assistant message i are answered: its results stand directly
\* behind it, one per request, in the order of the requests, and no other
\* message of the sequence carries one of the ids
Answered(ms, i) ==
    LET calls == ms[i].tool_calls
    IN /\ i + Len(calls) <= Len(ms)
       /\ \A k \in 1..Len(calls) :
             /\ ms[i + k].role = "tool"
             /\ ms[i + k].tool_call_id = calls[k].id
             /\ ms[i + k].name = calls[k].name
             /\ Cardinality({j \in 1..Len(ms) :
                                ms[j].role = "tool" /\ ms[j].tool_call_id = calls[k].id}) = 1

\* tool-result message j answers a request of the assistant message that
\* stands before it with nothing but tool results in between
HasRequest(ms, j) ==
    \E i \in 1..(j - 1) :
        /\ ms[i].role = "ai"
        /\ \E k \in 1..Len(ms[i].tool_calls) : ms[i].tool_calls[k].id = ms[j].tool_call_id
        /\ \A l \in (i + 1)..(j - 1) : ms[l].role = "tool"

\* C2 as claimed (read at the step boundaries, that is, whenever tool dispatch
\* is not the pending step): every tool-call request of every assistant message
\* is answered by exactly one tool-result message with its id, directly behind
\* the assistant message, and every tool result has its request.
C2_EveryRequestAnswered ==
    \A r \in Requests :
        (pc[r] # "tools") =>
            \A i \in 1..Len(messages[r]) :
                /\ (messages[r][i].role = "ai") => Answered(messages[r], i)
                /\ (messages[r][i].role = "tool") => HasRequest(messages[r], i)

\* C2 (amended): every tool result has its request in the assistant message
\* directly before its block; the requests of every assistant message that is
\* not the last message are answered exactly once, directly behind it; an
\* assistant message with requests is the last message only while dispatch is
\* pending or in the partial state of a request that failed before dispatch.
C2_RequestsAnsweredOnceDispatched ==
    \A r \in Requests :
        \A i \in 1..Len(messages[r]) :
            /\ (messages[r][i].role = "tool") => HasRequest(messages[r], i)
            /\ (messages[r][i].role = "ai" /\ i < Len(messages[r])) =>
                   Answered(messages[r], i)
            /\ (messages[r][i].role = "ai" /\ i = Len(messages[r])
                    /\ messages[r][i].tool_calls # << >>) =>
                   pc[r] \in {"tools", "failed"}

\* a request stopped by the recursion limit: the two requests of its first
\* assistant message are answered, those of its last one are not
C2_Witness ==
    \E r \in Requests :
        /\ pc[r] = "failed" /\ outcome[r] = Raised("GraphRecursionError")
        /\ Last(messages[r]).tool_calls # << >>
        /\ Len(messages[r][query_idx[r] + 2].tool_calls) = 2
        /\ Answered(messages[r], query_idx[r] + 2)

\* a request never returns a response and, once in the graph, fails with the
\* recursion error exactly when the limit of supersteps is used up
NeverReturns ==
    \A r \in Requests :
        /\ outcome[r].kind # "return"
        /\ pc[r] \notin {"finalize", "done"}
        /\ steps[r] <= RecursionLimit
        /\ (pc[r] = "failed" /\ messages[r] # << >>) =>
              /\ outcome[r] = Raised("GraphRecursionError")
              /\ steps[r] = RecursionLimit

AllFailed == \A r \in Requests : pc[r] \in {"failed", "idle"}

C4_FailureCarriesPartialState ==
    \A r \in Requests :
        (pc[r] = "failed" /\ messages[r] # << >>) =>
            /\ outcome[r].kind = "raise"
            /\ "response" \notin DOMAIN outcome[r]
            /\ "log_id" \notin DOMAIN outcome[r]
            /\ "error" \in DOMAIN outcome[r]
            /\ "partial_state" \in DOMAIN outcome[r]
            /\ outcome[r].partial_state = messages[r]

\* ---- the InteractionLogs of a request (its prompt is the request's query)
LogsOf(r) ==
    {i \in 1..Len(logger_final) : logger_final[i].prompt[1].content = <<inp[r].query>>}

IsAnnouncement(e) == "tool_calls" \in DOMAIN e
IsToolEvent(e) == e.role = "tool"
IsToolMessage(m) == m.role = "tool"

\* the events of a log against the turn they record: the final assistant text
\* is the last event; the tool results are those of the turn, in the turn's
\* order; behind every announcement stand the results of its calls
OrderedEvents(ev, turn, answer) ==
    LET n == Len(ev)
        tev == SelectSeq(SubSeq(ev, 1, n - 1), IsToolEvent)
        tms == SelectSeq(turn, IsToolMessage)
    IN /\ n >= 1
       /\ ev[n] = [role |-> "assistant", content |-> answer]
       /\ \A i \in 1..(n - 1) : IsAnnouncement(ev[i]) \/ IsToolEvent(ev[i])
       /\ Len(tev) = Len(tms)
       /\ \A k \in 1..Len(tev) :
             /\ tev[k].tool_call_id = tms[k].tool_call_id
             /\ tev[k].name = tms[k].name
             /\ tev[k].content = tms[k].content
       /\ \A i \in 1..(n - 1) :
             IsAnnouncement(ev[i]) =>
                 /\ i + Len(ev[i].tool_calls) <= n - 1
                 /\ \A k \in 1..Len(ev[i].tool_calls) :
                       /\ IsToolEvent(ev[i + k])
                       /\ ev[i + k].tool_call_id = ev[i].tool_calls[k].id

\* C9: a completed request has exactly one InteractionLog; a request has no log
\* before its loop produced the final assistant message and run() returned;
\* the log's events are in conversation order with the final assistant text
\* last; the log id returned is the id of that write.
C9_OneOrderedLog ==
    \A r \in Requests :
        /\ (pc[r] # "done") => LogsOf(r) = {}
        /\ (pc[r] = "done") =>
              /\ Cardinality(LogsOf(r)) = 1
              /\ outcome[r].kind = "return"
              /\ outcome[r].log_id \in LogsOf(r)
              /\ Last(messages[r]).role = "ai"
              /\ Last(messages[r]).tool_calls = << >>
              /\ outcome[r].response = Last(messages[r]).content
              /\ OrderedEvents(logger_final[outcome[r].log_id].response,
                               slice_from(messages[r], query_idx[r]),
                               outcome[r].response)

\* the second of two logs records an announcement of two calls, their two
\* results and the final answer
C9_Witness ==
    \E r \in Requests :
        /\ pc[r] = "done" /\ outcome[r].log_id = 2
        /\ Len(logger_final) = 2
        /\ Len(logger_final[2].response) = 4
        /\ IsAnnouncement(logger_final[2].response[1])

\* ---- what belongs to a request: the strings of its arguments and of its
\* user's rows
Range(f) == {f[x] : x \in DOMAIN f}
Tokens(r) ==
    {inp[r].query, inp[r].user_id, KeyOf(inp[r].user_id)}
        \cup Range(inp[r].query_history) \cup Range(inp[r].response_history)
        \cup Range(PrefsOf(inp[r].user_id))
Foreign(r) == UNION {Tokens(o) : o \in Requests \ {r}}
MessageStrings(m) ==
    Range(m.content) \cup UNION {Range(m.tool_calls[k].args) : k \in 1..Len(m.tool_calls)}

Locals(r) ==
    <<message_history[r], chatml[r], user_preferences[r], query_idx[r], messages[r], steps[r]>>

\* no message of a request holds a string of another request
OwnMessagesOnly ==
    \A r \in Requests :
        /\ \A i \in 1..Len(messages[r]) : MessageStrings(messages[r][i]) \cap Foreign(r) = {}
        /\ \A i \in 1..Len(message_history[r]) :
               MessageStrings(message_history[r][i]) \cap Foreign(r) = {}
        /\ \A i \in 1..Len(chatml[r]) : Range(chatml[r][i].content) \cap Foreign(r) = {}

\* the tool catalog and the other fields of the instance are as constructed
SharedUntouched == agent = AgentInit

\* a step changes the locals of one request at most
OneWriter ==
    \A r1, r2 \in Requests :
        (r1 # r2) => ~(Locals(r1)' # Locals(r1) /\ Locals(r2)' # Locals(r2))

\* C10: with requests running concurrently on the one instance, under any
\* interleaving of their steps, the conversation state of a request holds only
\* messages built from its own query, history, identity, preferences and
\* credential; no step of a request changes another request's message
\* sequence; the tool catalog and the instance's fields never change.
C10_RequestIsolation ==
    /\ [](OwnMessagesOnly /\ SharedUntouched)
    /\ [][OneWriter]_vars

\* both requests are inside the reasoning loop, each with tool results
C10_Witness ==
    \A r \in Requests :
        /\ pc[r] = "reasoner" /\ steps[r] = 2
        /\ Last(messages[r]).role = "tool"

\* ================================================== the evaluation pipeline
\* longest input['messages'] of an evaluation input, and most inputs of a run
MaxEvalMessages == 2
MaxEvalInputs == 2

\* the parameters of AgenticRAG.run (agent.py:175-180)
run_parameters == <<"self", "query", "user_id", "query_history", "response_history">>

\* mutant: a run() that also takes the two keywords of the evaluation pipeline
bind_call_any(parameters, positional, keywords) == "bound"

\* Python's binding of a call's arguments to a signature without *args/**kwargs:
\* too many positionals, a keyword that is no parameter, or a parameter given
\* twice or not at all is a TypeError raised before the body runs
bind_call(parameters, positional, keywords) ==
    LET names == {parameters[i] : i \in 1..Len(parameters)}
        by_position == {parameters[i] : i \in 1..Min(positional, Len(parameters))}
    IN IF /\ positional <= Len(parameters)
          /\ keywords \subseteq names
          /\ keywords \cap by_position = {}
          /\ by_position \cup keywords = names
       THEN "bound"
       ELSE "TypeError"

\* the keywords of the call in evals_run (eval_pipeline.py:68)
evals_run_keywords == {"eval_mode", "config"}

EvalMessage(role, content) == [role |-> role, content |-> content]
EvalMessageLists ==
    SeqsUpTo({EvalMessage(role, c) : role \in {"user", "assistant"}, c \in {"a", "b"}},
             MaxEvalMessages)

\* the contents of the messages of one role, in order (eval_pipeline.py:54-58)
split_history(ms, user) ==
    LET picked == SelectSeq(ms, LAMBDA m : (m.role = "user") = user)
    IN [i \in 1..Len(picked) |-> picked[i].content]

EvalsLocals(arr, i, results) ==
    [pc |-> IF i <= Len(arr) THEN "split" ELSE "done",
     input_arr |-> arr, i |-> i, results |-> results,
     latest_query |-> "", user_history |-> << >>, ai_history |-> << >>,
     response |-> Pending, error |-> ""]

InitEval ==
    /\ agent = AgentInit
    /\ logger_final = << >>
    /\ users_staging = [u \in Users |-> Row(u, List(PrefsOf(u)))]
    /\ inp = [r \in Requests |-> Input(r, <<<< >>, << >>>>)]
    /\ pc = [r \in Requests |-> "idle"]
    /\ LocalsInit
    /\ HistOff
    /\ \E arr \in SeqsUpTo({[messages |-> ms] : ms \in EvalMessageLists}, MaxEvalInputs) :
           /\ Len(arr) >= 1
           /\ evals = EvalsLocals(arr, 1, << >>)
    /\ tin = [tool |-> "none"]
    /\ tout = [done |-> TRUE]

\* eval_pipeline.py:50-58: the last message is the query, the ones before it are
\* split by role; input['messages'][-1] of an empty list raises IndexError
EvalsSplit ==
    /\ evals.pc = "split"
    /\ LET ms == evals.input_arr[evals.i].messages
       IN IF Len(ms) = 0
          THEN evals' = [evals EXCEPT !.pc = "except", !.error = "IndexError"]
          ELSE evals' = [evals EXCEPT
                   !.pc = "call",
                   !.latest_query = Last(ms).content,
                   !.user_history = split_history(SubSeq(ms, 1, Len(ms) - 1), TRUE),
                   !.ai_history = split_history(SubSeq(ms, 1, Len(ms) - 1), FALSE)]
    /\ UNCHANGED <<reqvars, hq, hr, hout, tin, tout>>

\* eval_pipeline.py:68: await self.agent.run(latest_query, self.user_id,
\* user_history, ai_history, eval_mode=True, config=config).  Bound, the call
\* starts a request on the agent; not bound, it raises into the except clause.
EvalsCallRun ==
    /\ evals.pc = "call"
    /\ IF bind_call(run_parameters, 5, evals_run_keywords) = "bound"
       THEN /\ evals' = [evals EXCEPT !.pc = "await"]
            /\ pc' = [pc EXCEPT ![1] = "start"]
            /\ inp' = [inp EXCEPT ![1] = [query |-> evals.latest_query,
                                          user_id |-> UserOf(1),
                                          query_history |-> evals.user_history,
                                          response_history |-> evals.ai_history]]
       ELSE /\ evals' = [evals EXCEPT !.pc = "except", !.error = "TypeError",
                                      !.response = Raised("TypeError")]
            /\ UNCHANGED <<pc, inp>>
    /\ UNCHANGED <<agent, users_staging, logger_final, message_history, chatml,
                   user_preferences, query_idx, messages, steps, outcome,
                   hq, hr, hout, tin, tout>>

\* eval_pipeline.py:79-84: the input is recorded as a FAIL with the text of the
\* exception, and the loop goes on with the next input
EvalsExcept ==
    /\ evals.pc = "except"
    /\ evals' = EvalsLocals(evals.input_arr, evals.i + 1,
                            Append(evals.results,
                                   [STATUS |-> "FAIL", COMMENT |-> evals.error,
                                    run |-> evals.response]))
    /\ UNCHANGED <<reqvars, hq, hr, hout, tin, tout>>

NextEval == EvalsSplit \/ EvalsCallRun \/ EvalsExcept

SpecEval == InitEval /\ [][NextEval]_vars

\* ------------------------------------------------------------------ C11
\* C11: in evaluation mode (run called with eval_mode=True and a config), run
\* returns the final response text together with the ordered slice of
\* tool-call and tool-result events of the turn: every call the evaluation
\* pipeline has made to run has returned, with a response and the tool calls.
C11_EvalModeReturnsEvents ==
    \A k \in 1..Len(evals.results) :
        Len(evals.input_arr[k].messages) > 0 =>
            /\ evals.results[k].run.kind = "return"
            /\ "tool_calls" \in DOMAIN evals.results[k].run

\* ======================================================= device responses
\* JSON values as requests' .json() returns them: None, numbers, strings,
\* lists and dicts.  A dict is a function from its keys; a key drawn as
\* Absent is left out of the dict.
JNull == [t |-> "null"]
JNum(n) == [t |-> "num", n |-> n]
JStr(str) == [t |-> "str", s |-> str]
JList(items) == [t |-> "list", items |-> items]
JDict(fields) == [t |-> "dict", fields |-> fields]
Absent == [t |-> "absent"]
MakeDict(fields) ==
    JDict([k \in {key \in DOMAIN fields : fields[key].t # "absent"} |-> fields[k]])
EmptyDict == JDict([k \in {} |-> JNull])

\* a call that returned a value, and a call that raised
Ok(value) == [ok |-> TRUE, v |-> value]
Err(error) == [ok |-> FALSE, error |-> error]

\* Python truth value: None, 0, '', [] and {} are false
truthy(j) ==
    CASE j.t = "null" -> FALSE
      [] j.t = "num" -> j.n # 0
      [] j.t = "str" -> Len(j.s) > 0
      [] j.t = "list" -> Len(j.items) > 0
      [] j.t = "dict" -> DOMAIN j.fields # {}

\* key in container, for a string key: a key of a dict, an element of a list;
\* None and numbers are not iterable
contains(container, key) ==
    CASE container.t = "dict" -> Ok(key \in DOMAIN container.fields)
      [] container.t = "list" ->
             Ok(\E i \in 1..Len(container.items) :
                    container.items[i].t = "str" /\ container.items[i].s = <<key>>)
      [] container.t = "str" -> Ok(container.s = <<key>>)
      [] OTHER -> Err("TypeError")

\* ===================================================== ResponseChecks
\* mutant: a basic check that lets an empty collection pass
check_oura_basic_not_null(response) ==
    /\ response.t = "dict"
    /\ "data" \in DOMAIN response.fields
    /\ response.fields["data"].t # "null"

\* _check_oura_basic (response_checks.py:22-27), on None, a dict, or a list
\* of dicts: not response or "data" not in response or not response['data']
check_oura_basic(response) ==
    ~ ( \/ ~truthy(response)
        \/ ~contains(response, "data").v
        \/ ~truthy(response.fields["data"]) )

\* mutant: availability decided by the average alone, as for a family whose
\* companion sub-record is not looked at
family_available_average_only(record, average_key, family_key) ==
    Ok(/\ average_key \in DOMAIN record.fields
       /\ record.fields[average_key].t = "num"
       /\ record.fields[average_key].n > 0)

\* one family of _check_oura_analysis (response_checks.py:38-43, 44-49):
\*   average_key in response and response[average_key] is not None and
\*   response[average_key] > 0 and 'items' in response[family_key]
\* evaluated left to right; a str compared with 0, a missing family_key and
\* "in None" raise
family_available(record, average_key, family_key) ==
    IF average_key \notin DOMAIN record.fields THEN Ok(FALSE)
    ELSE IF record.fields[average_key].t = "null" THEN Ok(FALSE)
    ELSE IF record.fields[average_key].t # "num" THEN Err("TypeError")
    ELSE IF ~(record.fields[average_key].n > 0) THEN Ok(FALSE)
    ELSE IF family_key \notin DOMAIN record.fields THEN Err("KeyError")
    ELSE contains(record.fields[family_key], "items")

\* response_checks.py:51-54
movement_available(record) ==
    /\ "movement_30_sec" \in DOMAIN record.fields
    /\ record.fields["movement_30_sec"].t # "null"

\* _check_oura_analysis (response_checks.py:29-55) on a response that passed
\* the basic check with a list of dicts under 'data'
check_oura_analysis(response) ==
    LET record == response.fields["data"].items[1]
        heart_rate == family_available(record, "average_heart_rate", "heart_rate")
        hrv == family_available(record, "average_hrv", "hrv")
    IN IF response.fields["data"].t # "list" THEN Err("TypeError")
       ELSE IF Len(response.fields["data"].items) = 0 THEN Err("IndexError")
       ELSE IF ~heart_rate.ok THEN heart_rate
       ELSE IF ~hrv.ok THEN hrv
       ELSE Ok([heart_rate |-> heart_rate.v, hrv |-> hrv.v,
                movement |-> movement_available(record)])

\* check_response (response_checks.py:8-20)
check_response(response, endpoint_type, type) ==
    IF endpoint_type = "oura" /\ ~check_oura_basic(response)
    THEN Ok([basic |-> FALSE])
    ELSE IF endpoint_type = "oura" /\ type = "analysis"
    THEN LET analysis == check_oura_analysis(response)
         IN IF analysis.ok THEN Ok([basic |-> TRUE, analysis |-> analysis.v])
            ELSE analysis
    ELSE Ok([basic |-> TRUE])

\* ========================================================= the tools
\* what a tool call comes to: a returned string (a sequence of tokens), a
\* returned structure, or an exception that leaves the tool
ReturnStr(tokens) == [kind |-> "return", type |-> "str", v |-> tokens]
ReturnValue(type, value) == [kind |-> "return", type |-> type, v |-> value]

\* the first exception of a sequence of evaluations, or all their values
first_error(parts) ==
    IF \E i \in 1..Len(parts) : ~parts[i].ok
    THEN parts[CHOOSE i \in 1..Len(parts) :
                   ~parts[i].ok /\ \A j \in 1..(i - 1) : parts[j].ok]
    ELSE Ok([i \in 1..Len(parts) |-> parts[i].v])

\* record[key]
subscript(record, key) ==
    IF key \in DOMAIN record.fields THEN Ok(record.fields[key]) ELSE Err("KeyError")

\* max(items) and min(items) of a list of numbers; of an empty list ValueError
max_of(list) ==
    IF Len(list.items) = 0 THEN Err("ValueError")
    ELSE Ok(JNum(CHOOSE m \in {list.items[i].n : i \in 1..Len(list.items)} :
                     \A i \in 1..Len(list.items) : list.items[i].n <= m))
min_of(list) ==
    IF Len(list.items) = 0 THEN Err("ValueError")
    ELSE Ok(JNum(CHOOSE m \in {list.items[i].n : i \in 1..Len(list.items)} :
                     \A i \in 1..Len(list.items) : list.items[i].n >= m))

\* tools.py:104-120
heart_rate_items(extracted_data, available) ==
    IF available
    THEN LET parts == first_error(<<subscript(extracted_data, "average_heart_rate"),
                                    subscript(extracted_data, "lowest_heart_rate"),
                                    max_of(extracted_data.fields["heart_rate"].fields["items"])>>)
         IN IF ~parts.ok THEN parts
            ELSE Ok([heart_rate_average |-> parts.v[1],
                     lowest_heart_rate |-> parts.v[2],
                     highest_heart_rate |-> parts.v[3]])
    ELSE Ok([heart_rate_average |-> JNull,
             lowest_heart_rate |-> JNull,
             highest_heart_rate |-> JNull])

\* tools.py:123-134
hrv_items(extracted_data, available) ==
    IF available
    THEN LET parts == first_error(<<subscript(extracted_data, "average_hrv"),
                                    min_of(extracted_data.fields["hrv"].fields["items"]),
                                    max_of(extracted_data.fields["hrv"].fields["items"])>>)
         IN IF ~parts.ok THEN parts
            ELSE Ok([hrv_average |-> parts.v[1],
                     hrv_min |-> parts.v[2],
                     hrv_max |-> parts.v[3]])
    ELSE Ok([hrv_average |-> JNull, hrv_min |-> JNull, hrv_max |-> JNull])

\* tools.py:148-153
mapping ==
    [c \in {"1", "2", "3", "4"} |->
        CASE c = "1" -> "no motion"
          [] c = "2" -> "restless"
          [] c = "3" -> "tossing and turning"
          [] c = "4" -> "active"]

\* Counter(movement)[key]
count_of(movement, key) == Cardinality({i \in 1..Len(movement) : movement[i] = key})

\* freq / length, kept exact
Fraction(num, den) == [t |-> "fraction", num |-> num, den |-> den]

\* mutant: every state of the mapping reported, at an even share
movement_items_even(extracted_data, available) ==
    Ok([name \in {mapping[c] : c \in DOMAIN mapping} |->
           Fraction(1, Cardinality(DOMAIN mapping))])

\* tools.py:143-160: the share of each code that occurs, under its name; a
\* code the mapping does not have is a KeyError
movement_items(extracted_data, available) ==
    IF ~available THEN Ok([movement_30_sec |-> JNull])
    ELSE LET movement == extracted_data.fields["movement_30_sec"].s
             length == Len(movement)
             keys == {movement[i] : i \in 1..length}
         IN IF ~(keys \subseteq DOMAIN mapping) THEN Err("KeyError")
            ELSE Ok([name \in {mapping[key] : key \in keys} |->
                       LET key == CHOOSE c \in keys : mapping[c] = name
                       IN Fraction(count_of(movement, key), length)])

\* mutant: minutes rounded to the nearest minute
duration_format_rounded(seconds) ==
    <<seconds \div 3600, " hours and ", ((seconds % 3600) + 30) \div 60, " minutes">>

\* tools.py:168: f"{s // 3600} hours and {((s % 3600) // 60)} minutes"
duration_format(seconds) ==
    <<seconds \div 3600, " hours and ", (seconds % 3600) \div 60, " minutes">>

DurationFields ==
    <<"total_sleep_duration", "time_in_bed", "rem_sleep_duration",
      "light_sleep_duration", "deep_sleep_duration", "awake_time">>

\* tools.py:166-174
duration_items(extracted_data) ==
    LET parts == first_error([i \in 1..Len(DurationFields) |->
                                 subscript(extracted_data, DurationFields[i])])
    IN IF ~parts.ok THEN parts
       ELSE Ok([k \in {DurationFields[i] : i \in 1..Len(DurationFields)} |->
                   JStr(duration_format(extracted_data.fields[k].n))])

\* tools.py:100-103
bedtime_items(extracted_data) ==
    LET parts == first_error(<<subscript(extracted_data, "bedtime_start"),
                               subscript(extracted_data, "bedtime_end")>>)
    IN IF ~parts.ok THEN parts
       ELSE Ok([bedtime_start |-> parts.v[1], bedtime_end |-> parts.v[2]])

DifferentDatesMessage == <<"Please provide a different start and end date.">>
UnavailableMessage == <<"Data for the specified date appears to be unavailable or empty">>

\* what a tool call did and came to
Done(result, trace) == [done |-> TRUE, result |-> result, trace |-> trace]

\* sleep_analysis from the device request on (tools.py:69-177).  api is what
\* the GET of tools.py:81 comes to: the parsed body, or an exception.  The trace
\* lists the device request, the call of the validator and the read of the
\* first data record.
sleep_analysis_fetch(start_date, end_date, user_key, api) ==
    IF ~api.ok
    THEN Done(ReturnStr(<<"Unable to retrieve sleep data due to ", api.error>>),
              <<"request">>)
    ELSE LET checks == check_response(api.v, "oura", "analysis")
         IN IF ~checks.ok
            THEN Done(Raised(checks.error), <<"request", "check_response">>)
            ELSE IF ~checks.v.basic
            THEN Done(ReturnStr(UnavailableMessage), <<"request", "check_response">>)
            ELSE LET extracted_data == api.v.fields["data"].items[1]
                     res == first_error(
                         <<bedtime_items(extracted_data),
                           heart_rate_items(extracted_data, checks.v.analysis.heart_rate),
                           hrv_items(extracted_data, checks.v.analysis.hrv),
                           movement_items(extracted_data, checks.v.analysis.movement),
                           subscript(extracted_data, "readiness"),
                           duration_items(extracted_data)>>)
                 IN Done(IF res.ok THEN ReturnValue("list", res.v) ELSE Raised(res.error),
                         <<"request", "check_response", "read">>)

\* mutant: the equal-dates check made only after the device was asked
sleep_analysis_late_date_check(start_date, end_date, user_key, api) ==
    IF start_date = end_date
    THEN Done(ReturnStr(DifferentDatesMessage), <<"request">>)
    ELSE sleep_analysis_fetch(start_date, end_date, user_key, api)

\* sleep_analysis (tools.py:41-177)
sleep_analysis(start_date, end_date, user_key, api) ==
    IF start_date = end_date THEN Done(ReturnStr(DifferentDatesMessage), << >>)
    ELSE sleep_analysis_fetch(start_date, end_date, user_key, api)

\* the pieces of an f-string: its literal text and the str() of a value
Text(str) == [text |-> str]
Rendered(value) == [rendered |-> value]

RECURSIVE join_lines(_)
\* "\n".join(response_messages), each message a sequence of pieces
join_lines(lines) ==
    IF Len(lines) = 0 THEN << >>
    ELSE IF Len(lines) = 1 THEN lines[1]
    ELSE lines[1] \o <<Text("\n")>> \o join_lines(Tail(lines))

\* the loop bodies of tools.py:225-231 and 268-274: one line per record
sleep_line(result) ==
    LET parts == first_error(<<subscript(result, "score"),
                               subscript(result, "contributors"),
                               subscript(result, "day")>>)
    IN IF ~parts.ok THEN parts
       ELSE Ok(<<Text("Score: "), Rendered(parts.v[1]),
                 Text(", Contributors: "), Rendered(parts.v[2]),
                 Text(", Day: "), Rendered(parts.v[3])>>)
stress_line(result) ==
    LET parts == first_error(<<subscript(result, "stress_high"),
                               subscript(result, "recovery_high"),
                               subscript(result, "day"),
                               subscript(result, "day_summary")>>)
    IN IF ~parts.ok THEN parts
       ELSE Ok(<<Text("Stress High: "), Rendered(parts.v[1]),
                 Text(", Recovery High: "), Rendered(parts.v[2]),
                 Text(", Day: "), Rendered(parts.v[3]),
                 Text(", Day Summary: "), Rendered(parts.v[4])>>)

\* the device request, the validator call (if any) and one read per record
reads(n) == [i \in 1..n |-> "read"]

\* mutant: a summary that renders the first record only
get_sleep_data_first_only(start_date, end_date, user_key, api) ==
    IF ~api.ok \/ ~check_oura_basic(api.v)
    THEN Done(ReturnStr(UnavailableMessage), <<"request", "check_response">>)
    ELSE LET line == sleep_line(api.v.fields["data"].items[1])
         IN Done(IF line.ok THEN ReturnStr(line.v) ELSE Raised(line.error),
                 <<"request", "check_response", "read">>)

\* get_sleep_data (tools.py:179-233)
get_sleep_data(start_date, end_date, user_key, api) ==
    IF ~api.ok
    THEN Done(ReturnStr(<<"Unable to retrieve sleep data due to ", api.error>>),
              <<"request">>)
    ELSE LET checks == check_response(api.v, "oura", "analysis")
         IN IF ~checks.ok
            THEN Done(Raised(checks.error), <<"request", "check_response">>)
            ELSE IF ~checks.v.basic
            THEN Done(ReturnStr(UnavailableMessage), <<"request", "check_response">>)
            ELSE LET data == api.v.fields["data"].items
                     lines == first_error([i \in 1..Len(data) |-> sleep_line(data[i])])
                 IN Done(IF lines.ok THEN ReturnStr(join_lines(lines.v))
                         ELSE Raised(lines.error),
                         <<"request", "check_response">> \o reads(Len(data)))

\* get_stress_data (tools.py:235-276): the request is not guarded, and an
\* empty or null 'data' is not told from a filled one before the loop
get_stress_data(start_date, end_date, user_key, api) ==
    IF ~api.ok THEN Done(Raised(api.error), <<"request">>)
    ELSE IF ~truthy(api.v) \/ ~contains(api.v, "data").v
    THEN Done(ReturnStr(<<"Unable to retrieve stress data">>), <<"request">>)
    ELSE IF api.v.fields["data"].t # "list"
    THEN Done(Raised("TypeError"), <<"request">>)
    ELSE LET data == api.v.fields["data"].items
             lines == first_error([i \in 1..Len(data) |-> stress_line(data[i])])
         IN Done(IF lines.ok THEN ReturnStr(join_lines(lines.v))
                 ELSE Raised(lines.error),
                 <<"request">> \o reads(Len(data)))

RECURSIVE sum_of(_)
sum_of(numbers) ==
    IF Len(numbers) = 0 THEN 0 ELSE Head(numbers) + sum_of(Tail(numbers))

\* pandas' Series.mean(): not-a-number for an empty series
NaN == [t |-> "nan"]
mean_of(numbers) ==
    IF Len(numbers) = 0 THEN NaN ELSE Fraction(sum_of(numbers), Len(numbers))

\* df[df["source"] == "workout"]["bpm"] and its complement (tools.py:316-317)
bpm_of(data, workout) ==
    LET picked == SelectSeq(data, LAMBDA row : (row.fields["source"].s = <<"workout">>) = workout)
    IN [i \in 1..Len(picked) |-> picked[i].fields["bpm"].n]

\* get_heart_rate_data (tools.py:280-324): the request is not guarded
get_heart_rate_data(start_date, end_date, user_key, api) ==
    IF ~api.ok THEN Done(Raised(api.error), <<"request">>)
    ELSE IF ~check_oura_basic(api.v)
    THEN Done(ReturnStr(<<"Unable to retrieve heart rate data">>), <<"request">>)
    ELSE LET data == api.v.fields["data"].items
             bpm == JList([i \in 1..Len(data) |-> data[i].fields["bpm"]])
         IN Done(ReturnValue("dict",
                     [max_bpm |-> max_of(bpm).v,
                      min_bpm |-> min_of(bpm).v,
                      average_bpm_workout |-> mean_of(bpm_of(data, TRUE)),
                      average_bpm_non_workout |-> mean_of(bpm_of(data, FALSE))]),
                 <<"request">> \o reads(Len(data)))

\* an exception with its message
RaisedWith(error, message) == [kind |-> "raise", error |-> error, message |-> message]

\* the exception classes "except RuntimeError" catches
RuntimeErrors == {"RuntimeError", "NotImplementedError", "RecursionError"}

\* the comprehension of tools.py:361 and 400: one line per match
match_line(result) ==
    LET metadata == subscript(result, "metadata")
        parts == IF ~metadata.ok THEN metadata
                 ELSE first_error(<<subscript(metadata.v, "source"),
                                    subscript(metadata.v, "text"),
                                    subscript(result, "score")>>)
    IN IF ~parts.ok THEN parts
       ELSE Ok(<<Text("Source: "), Rendered(parts.v[1]),
                 Text(", Text: "), Rendered(parts.v[2]),
                 Text(", Similarity: "), Rendered(parts.v[3])>>)

\* get_insights (tools.py:369-406), and get_Andrew_Huberman_Insights
\* (tools.py:330-367), which is the same code on a fixed namespace.  api is what
\* the embedding and the index query come to: the matches, or an exception.
\* Only RuntimeError is caught; any other exception, of the backend or of a
\* match without the fields read, leaves the tool as it is.
get_insights(query, scope, api) ==
    IF ~api.ok
    THEN Done(IF api.error \in RuntimeErrors
              THEN RaisedWith("RuntimeError", "Pinecone Server Error")
              ELSE RaisedWith(api.error, "backend"),
              <<"query">>)
    ELSE LET matches == api.v.fields["matches"].items
             lines == first_error([i \in 1..Len(matches) |-> match_line(matches[i])])
         IN Done(IF lines.ok THEN ReturnStr(join_lines(lines.v))
                 ELSE RaisedWith(lines.error, "match"),
                 <<"query">>)

get_Andrew_Huberman_Insights(query, api) == get_insights(query, "all", api)

\* ------------------------------------------------- what the device returns
\* the first record of a sleep response (tools.py:98-174), each family drawn
\* with its average and its sample sub-record present, null, absent or odd
AverageOptions == {Absent, JNull, JNum(0), JNum(-1), JNum(60), JStr(<<"n/a">>)}
Samples(items) == JDict([interval |-> JNum(300), items |-> JList(items)])
SampleOptions ==
    {Absent, JNull, JDict([interval |-> JNum(300)]),
     Samples(<<JNum(55), JNum(70)>>), Samples(<< >>)}
MovementOptions == {Absent, JNull, JStr(<<"1", "1", "2", "3">>)}
\* an empty string, and a code the mapping does not have
OddMovements == {<< >>, <<"1", "5">>}

\* a night of total_sleep_duration seconds
SleepRecord(average_heart_rate, heart_rate, average_hrv, hrv, movement, seconds) ==
    MakeDict([bedtime_start |-> JStr(<<"2026-11-05T23:10:00">>),
              bedtime_end |-> JStr(<<"2026-11-06T07:02:00">>),
              average_heart_rate |-> average_heart_rate,
              lowest_heart_rate |-> JNum(48),
              heart_rate |-> heart_rate,
              average_hrv |-> average_hrv,
              hrv |-> hrv,
              movement_30_sec |-> movement,
              readiness |-> JDict([score |-> JNum(80)]),
              total_sleep_duration |-> JNum(seconds),
              time_in_bed |-> JNum(seconds + 600),
              rem_sleep_duration |-> JNum(seconds \div 4),
              light_sleep_duration |-> JNum(seconds \div 2),
              deep_sleep_duration |-> JNum(seconds - (seconds \div 4) - (seconds \div 2)),
              awake_time |-> JNum(600)])

GoodNight == SleepRecord(JNum(60), Samples(<<JNum(55), JNum(70)>>),
                         JNum(50), Samples(<<JNum(40), JNum(62)>>),
                         JStr(<<"1", "1", "2", "3">>), 5025)

\* responses without usable data: None, {}, an error body, null or empty data
EmptyResponses ==
    {JNull, EmptyDict, JDict([detail |-> JStr(<<"Not Found">>)]),
     JDict([data |-> JNull]), JDict([data |-> JList(<< >>)]),
     JList(<<JDict([detail |-> JStr(<<"Not Found">>)])>>)}

DataResponse(records) == JDict([data |-> JList(records), next_token |-> JNull])

\* longest movement_30_sec drawn over the four codes, most minutes of a night,
\* and most records of a summary response
MaxMovement == 4
MaxMinutes == 90
MaxRecords == 2

\* the seconds drawn: each minute up to MaxMinutes, at its start, within it and
\* at its last second
Seconds == {60 * m + k : m \in 0..MaxMinutes, k \in {0, 45, 59}}

SleepRecords ==
    {SleepRecord(a, h, av, hv, m, 5025) :
        a \in AverageOptions, h \in SampleOptions,
        av \in AverageOptions, hv \in SampleOptions, m \in MovementOptions}
    \cup {SleepRecord(JNum(60), Samples(<<JNum(55), JNum(70)>>), JNull, JNull, JStr(m), 5025) :
             m \in SeqsUpTo(DOMAIN mapping, MaxMovement) \cup OddMovements}
    \cup {SleepRecord(JNull, JNull, JNum(50), Samples(<<JNum(40), JNum(62)>>), JNull, sec) :
             sec \in Seconds}

SleepResponses ==
    EmptyResponses
    \cup {DataResponse(<<record>>) : record \in SleepRecords}
    \cup {DataResponse(<<GoodNight, GoodNight>>)}

\* the responses whose first record varies in what the validator looks at
CheckedResponses ==
    EmptyResponses
    \cup {DataResponse(<<SleepRecord(a, h, av, hv, m, 5025)>>) :
             a \in AverageOptions, h \in SampleOptions,
             av \in AverageOptions, hv \in SampleOptions, m \in MovementOptions}

\* the records of the daily_sleep, daily_stress and heartrate endpoints
DailySleep(day, score) ==
    MakeDict([score |-> score, day |-> JStr(<<day>>),
              contributors |-> JDict([deep_sleep |-> JNum(90)])])
DailyStress(day, stress_high) ==
    MakeDict([stress_high |-> stress_high, recovery_high |-> JNum(3600),
              day |-> JStr(<<day>>), day_summary |-> JStr(<<"normal">>)])
Reading(bpm, source) ==
    JDict([bpm |-> JNum(bpm), source |-> JStr(<<source>>),
           timestamp |-> JStr(<<"2026-11-05T10:00:00">>)])

SummaryResponses(records) ==
    EmptyResponses \cup {DataResponse(rs) : rs \in SeqsUpTo(records, MaxRecords) \ {<< >>}}

Dates == {"2026-11-05", "2026-11-06"}

\* what the GET comes to: a connection failure or an unparsable body, or a body
ApiOutcomes(responses) == {Err("ConnectionError")} \cup {Ok(r) : r \in responses}

DeviceCall(tool, start_date, end_date, api) ==
    [tool |-> tool, start_date |-> start_date, end_date |-> end_date,
     user_key |-> KeyOf("u1"), api |-> api]

ToolCalls ==
    {[tool |-> "check_response", response |-> r, endpoint_type |-> e, type |-> t] :
         r \in CheckedResponses, e \in {"oura", "other"}, t \in {"basic", "analysis"}}
    \cup {DeviceCall("sleep_analysis", "2026-11-05", e, a) :
             e \in Dates, a \in ApiOutcomes(SleepResponses)}
    \cup {DeviceCall("get_sleep_data", "2026-11-05", e, a) :
             e \in Dates,
             a \in ApiOutcomes(SummaryResponses(
                      {DailySleep(d, sc) : d \in Dates, sc \in {JNum(85), Absent}}))}
    \cup {DeviceCall("get_stress_data", "2026-11-05", e, a) :
             e \in Dates,
             a \in ApiOutcomes(SummaryResponses(
                      {DailyStress(d, st) : d \in Dates, st \in {JNum(1800), Absent}}))}
    \cup {DeviceCall("get_heart_rate_data", "2026-11-05", e, a) :
             e \in Dates,
             a \in ApiOutcomes(SummaryResponses(
                      {Reading(b, src) : b \in {60, 120}, src \in {"workout", "rest"}}))}

\* what the index returns, and the exceptions of the embedding and the index
Match(source, score) ==
    JDict([id |-> JStr(<<source>>), score |-> score,
           metadata |-> JDict([source |-> JStr(<<source>>), text |-> JStr(<<"text">>)])])
BareMatch == JDict([id |-> JStr(<<"x">>), score |-> JNum(1)])
QueryResponses ==
    {JDict([matches |-> JList(ms)]) :
        ms \in SeqsUpTo({Match(src, JNum(1)) : src \in {"huberman-1", "huberman-2"}}
                        \cup {BareMatch}, MaxRecords)}
BackendErrors == {"RuntimeError", "NotImplementedError", "PineconeException", "ConnectionError"}
BackendOutcomes == {Err(x) : x \in BackendErrors} \cup {Ok(r) : r \in QueryResponses}

KnowledgeCalls ==
    {[tool |-> "get_Andrew_Huberman_Insights", query |-> q, api |-> a] :
         q \in {"sleep", "stress"}, a \in BackendOutcomes}
    \cup {[tool |-> "get_insights", query |-> q, scope |-> sc, api |-> a] :
             q \in {"sleep", "stress"}, sc \in {"all", "Andrew Huberman"},
             a \in BackendOutcomes}

InitTools ==
    /\ agent = AgentInit
    /\ logger_final = << >>
    /\ users_staging = [u \in Users |-> Row(u, List(PrefsOf(u)))]
    /\ inp = [r \in Requests |-> Input(r, <<<< >>, << >>>>)]
    /\ pc = [r \in Requests |-> "idle"]
    /\ LocalsInit
    /\ HistOff
    /\ evals = [pc |-> "off"]
    /\ tin \in ToolCalls \cup KnowledgeCalls
    /\ tout = [done |-> FALSE]

\* a call of ResponseChecks.check_response
CheckResponse ==
    /\ tin.tool = "check_response" /\ ~tout.done
    /\ LET checks == check_response(tin.response, tin.endpoint_type, tin.type)
       IN tout' = Done(IF checks.ok THEN ReturnValue("dict", checks.v)
                       ELSE Raised(checks.error), << >>)
    /\ UNCHANGED <<reqvars, hq, hr, hout, evals, tin>>

SleepAnalysis ==
    /\ tin.tool = "sleep_analysis" /\ ~tout.done
    /\ tout' = sleep_analysis(tin.start_date, tin.end_date, tin.user_key, tin.api)
    /\ UNCHANGED <<reqvars, hq, hr, hout, evals, tin>>

GetSleepData ==
    /\ tin.tool = "get_sleep_data" /\ ~tout.done
    /\ tout' = get_sleep_data(tin.start_date, tin.end_date, tin.user_key, tin.api)
    /\ UNCHANGED <<reqvars, hq, hr, hout, evals, tin>>

GetStressData ==
    /\ tin.tool = "get_stress_data" /\ ~tout.done
    /\ tout' = get_stress_data(tin.start_date, tin.end_date, tin.user_key, tin.api)
    /\ UNCHANGED <<reqvars, hq, hr, hout, evals, tin>>

GetHeartRateData ==
    /\ tin.tool = "get_heart_rate_data" /\ ~tout.done
    /\ tout' = get_heart_rate_data(tin.start_date, tin.end_date, tin.user_key, tin.api)
    /\ UNCHANGED <<reqvars, hq, hr, hout, evals, tin>>

GetAndrewHubermanInsights ==
    /\ tin.tool = "get_Andrew_Huberman_Insights" /\ ~tout.done
    /\ tout' = get_Andrew_Huberman_Insights(tin.query, tin.api)
    /\ UNCHANGED <<reqvars, hq, hr, hout, evals, tin>>

GetInsights ==
    /\ tin.tool = "get_insights" /\ ~tout.done
    /\ tout' = get_insights(tin.query, tin.scope, tin.api)
    /\ UNCHANGED <<reqvars, hq, hr, hout, evals, tin>>

NextTools ==
    \/ GetAndrewHubermanInsights
    \/ GetInsights
    \/ CheckResponse
    \/ SleepAnalysis
    \/ GetSleepData
    \/ GetStressData
    \/ GetHeartRateData

SpecTools == InitTools /\ [][NextTools]_vars

\* ------------------------------------------------------------------ C12
\* the response is non-empty, has the key 'data', and a non-empty collection
\* under it
HasData(response) ==
    /\ response.t = "dict"
    /\ "data" \in DOMAIN response.fields
    /\ response.fields["data"].t \in {"list", "dict"}
    /\ IF response.fields["data"].t = "list" THEN Len(response.fields["data"].items) > 0
       ELSE DOMAIN response.fields["data"].fields # {}

BasicFailed(result) == result.kind = "return" /\ ~result.v.basic

C13_CheckNeverRaises ==
    (tin.tool = "check_response" /\ tout.done) => tout.result.kind = "return"

\* ------------------------------------------------------------------ C14
\* record[key], or Absent
Get(record, key) == IF key \in DOMAIN record.fields THEN record.fields[key] ELSE Absent

\* what an analysis-level check says of hrv and movement, if it gets to say it
HrvAndMovement(checks) ==
    IF checks.ok
    THEN [evaluated |-> TRUE, hrv |-> checks.v.analysis.hrv,
          movement |-> checks.v.analysis.movement]
    ELSE [evaluated |-> FALSE]

\* C14: the availability of hrv and of movement depends only on the family's
\* own fields of the first record: a record that differs from the checked one
\* in its heart-rate fields only gets the same hrv and movement results, and
\* they are evaluated whatever the heart-rate fields are.
C14_FamiliesIndependent ==
    ( /\ tin.tool = "check_response" /\ tout.done
      /\ tin.endpoint_type = "oura" /\ tin.type = "analysis"
      /\ HasData(tin.response) ) =>
        LET record == tin.response.fields["data"].items[1]
            own == check_response(tin.response, "oura", "analysis")
        IN \A a \in AverageOptions, h \in SampleOptions :
               LET other == SleepRecord(a, h, Get(record, "average_hrv"),
                                        Get(record, "hrv"),
                                        Get(record, "movement_30_sec"), 5025)
               IN HrvAndMovement(check_response(DataResponse(<<other>>),
                                                "oura", "analysis"))
                  = HrvAndMovement(own)

\* ------------------------------------------------------------------ C15
\* the average is missing, null, or a number that is not positive
AverageUnavailable(record, average_key) ==
    \/ average_key \notin DOMAIN record.fields
    \/ record.fields[average_key].t = "null"
    \/ record.fields[average_key].t = "num" /\ record.fields[average_key].n <= 0

\* a call of sleep_analysis that got a response with data, on two dates
AnalysedNight ==
    /\ tin.tool = "sleep_analysis" /\ tout.done
    /\ tin.start_date # tin.end_date
    /\ tin.api.ok /\ HasData(tin.api.v)

\* C15: for every first data record whose average_heart_rate is missing, null
\* or not positive, the analysis check reports heart_rate false and
\* sleep_analysis returns the three heart-rate statistics as explicit nulls;
\* the same for the three hrv statistics when average_hrv is missing, null or
\* not positive.
C15_NullsWhenAverageUnavailable ==
    AnalysedNight =>
        LET record == tin.api.v.fields["data"].items[1]
            checks == check_response(tin.api.v, "oura", "analysis")
        IN /\ AverageUnavailable(record, "average_heart_rate") =>
                  /\ checks.ok /\ ~checks.v.analysis.heart_rate
                  /\ tout.result.kind = "return"
                  /\ tout.result.v[2] = [heart_rate_average |-> JNull,
                                         lowest_heart_rate |-> JNull,
                                         highest_heart_rate |-> JNull]
           /\ AverageUnavailable(record, "average_hrv") =>
                  /\ checks.ok /\ ~checks.v.analysis.hrv
                  /\ tout.result.kind = "return"
                  /\ tout.result.v[3] = [hrv_average |-> JNull, hrv_min |-> JNull,
                                         hrv_max |-> JNull]

\* ------------------------------------------------------------------ C16
HasRead(trace) == \E i \in 1..Len(trace) : trace[i] = "read"

\* C16: for every device response that is empty, lacks 'data', or has an
\* empty 'data' collection, sleep_analysis and get_sleep_data return the
\* diagnostic string: they do not raise and read no data record.
C16_DiagnosticWithoutData ==
    ( /\ tin.tool \in {"sleep_analysis", "get_sleep_data"} /\ tout.done
      /\ tin.api.ok /\ ~HasData(tin.api.v) ) =>
        /\ tout.result.kind = "return" /\ tout.result.type = "str"
        /\ tout.result.v =
               (IF tin.tool = "sleep_analysis" /\ tin.start_date = tin.end_date
                THEN DifferentDatesMessage ELSE UnavailableMessage)
        /\ ~HasRead(tout.trace)

C16_Witness ==
    /\ tin.tool = "get_sleep_data" /\ tout.done
    /\ tin.api.ok /\ tin.api.v = JDict([data |-> JList(<< >>)])
    /\ tout.result.v = UnavailableMessage

\* ------------------------------------------------------------------ C17
\* C17: every call of sleep_analysis with start_date equal to end_date returns
\* the message asking for different dates, and has issued no device request,
\* run no validation and read no record.
C17_EqualDates ==
    (tin.tool = "sleep_analysis" /\ tout.done /\ tin.start_date = tin.end_date) =>
        /\ tout.result.kind = "return" /\ tout.result.type = "str"
        /\ tout.result.v = DifferentDatesMessage
        /\ tout.trace = << >>

C17_Witness ==
    /\ tin.tool = "sleep_analysis" /\ tout.done /\ tin.start_date = tin.end_date
    /\ tin.api.ok /\ tin.api.v = DataResponse(<<GoodNight, GoodNight>>)
    /\ tout.result.v = DifferentDatesMessage

\* ------------------------------------------------------------------ C18
\* the named state of a movement code
StateName(code) ==
    CASE code = "1" -> "no motion"
      [] code = "2" -> "restless"
      [] code = "3" -> "tossing and turning"
      [] code = "4" -> "active"

Occurrences(movement, code) == Cardinality({i \in 1..Len(movement) : movement[i] = code})

RECURSIVE SumOfCounts(_, _)
SumOfCounts(histogram, names) ==
    IF names = {} THEN 0
    ELSE LET name == CHOOSE x \in names : TRUE
         IN histogram[name].num + SumOfCounts(histogram, names \ {name})

\* a returned analysis of a night whose movement string is non-empty and over
\* the codes '1'..'4'
MovementAnalysed ==
    /\ AnalysedNight /\ tout.result.kind = "return"
    /\ LET record == tin.api.v.fields["data"].items[1]
       IN /\ "movement_30_sec" \in DOMAIN record.fields
          /\ record.fields["movement_30_sec"].t = "str"
          /\ Len(record.fields["movement_30_sec"].s) > 0
          /\ \A i \in 1..Len(record.fields["movement_30_sec"].s) :
                 record.fields["movement_30_sec"].s[i] \in {"1", "2", "3", "4"}

\* C18: for every non-empty movement_30_sec over the codes '1'..'4', the
\* histogram returned by sleep_analysis has exactly the named states of the
\* codes that occur, each with the fraction count/length, and the counts sum
\* to the length of the string (the fractions sum to 1).
C18_MovementHistogram ==
    MovementAnalysed =>
        LET movement == tin.api.v.fields["data"].items[1].fields["movement_30_sec"].s
            histogram == tout.result.v[4]
            codes == {movement[i] : i \in 1..Len(movement)}
        IN /\ DOMAIN histogram = {StateName(c) : c \in codes}
           /\ \A c \in codes :
                  /\ histogram[StateName(c)].num = Occurrences(movement, c)
                  /\ histogram[StateName(c)].den = Len(movement)
           /\ SumOfCounts(histogram, DOMAIN histogram) = Len(movement)

C18_Witness ==
    /\ MovementAnalysed
    /\ tin.api.v.fields["data"].items[1].fields["movement_30_sec"].s = <<"1", "4", "1", "2">>
    /\ tout.result.v[4] = [name \in {"no motion", "active", "restless"} |->
                              Fraction(IF name = "no motion" THEN 2 ELSE 1, 4)]

\* ------------------------------------------------------------------ C19
\* C19: each duration field of a returned analysis reads "H hours and M
\* minutes" with 0 <= M <= 59 and 3600*H + 60*M <= s < 3600*H + 60*M + 60 for
\* the field's s seconds (floor, never rounded up); 5025 seconds reads
\* "1 hours and 23 minutes".
C19_DurationFormat ==
    (AnalysedNight /\ tout.result.kind = "return") =>
        \A i \in 1..Len(DurationFields) :
            LET s == tin.api.v.fields["data"].items[1].fields[DurationFields[i]].n
                text == tout.result.v[6][DurationFields[i]].s
            IN /\ Len(text) = 4
               /\ text[2] = " hours and " /\ text[4] = " minutes"
               /\ text[1] \in Nat /\ text[3] \in 0..59
               /\ 3600 * text[1] + 60 * text[3] <= s
               /\ s < 3600 * text[1] + 60 * text[3] + 60
               /\ s = 5025 => (text[1] = 1 /\ text[3] = 23)

C19_Witness ==
    /\ AnalysedNight /\ tout.result.kind = "return"
    /\ tin.api.v.fields["data"].items[1].fields["total_sleep_duration"].n = 3599
    /\ tout.result.v[6]["total_sleep_duration"].s = <<0, " hours and ", 59, " minutes">>
    /\ tout.result.v[6]["time_in_bed"].s = <<1, " hours and ", 9, " minutes">>

\* ------------------------------------------------------------------ C20
NewLines(text) == Cardinality({i \in 1..Len(text) : text[i] = [text |-> "\n"]})

\* the fields the summary extractors read of a record
SummaryFields(tool) ==
    CASE tool = "get_sleep_data" -> {"score", "contributors", "day"}
      [] tool = "get_stress_data" -> {"stress_high", "recovery_high", "day", "day_summary"}
      [] tool = "get_heart_rate_data" -> {"bpm", "source"}

\* a summary extractor got a 'data' collection of complete records
SummaryOfCollection ==
    /\ tin.tool \in {"get_sleep_data", "get_stress_data", "get_heart_rate_data"}
    /\ tout.done /\ tin.api.ok
    /\ tin.api.v.t = "dict" /\ "data" \in DOMAIN tin.api.v.fields
    /\ tin.api.v.fields["data"].t = "list"
    /\ \A i \in 1..Len(tin.api.v.fields["data"].items) :
           SummaryFields(tin.tool) \subseteq DOMAIN tin.api.v.fields["data"].items[i].fields

\* C20: get_sleep_data, get_stress_data and get_heart_rate_data answer an
\* empty 'data' collection with a non-empty no-data string, and a filled one
\* with one rendered line per record.
C20_SummaryOfEveryCollection ==
    SummaryOfCollection =>
        /\ tout.result.kind = "return" /\ tout.result.type = "str"
        /\ Len(tout.result.v) > 0
        /\ Len(tin.api.v.fields["data"].items) > 0 =>
               NewLines(tout.result.v) + 1 = Len(tin.api.v.fields["data"].items)

\* ------------------------------------------------------------------ C21
\* the bpm of the readings of a source class, in order
BpmOf(readings, workout) ==
    LET picked == SelectSeq(readings,
                            LAMBDA row : (row.fields["source"].s = <<"workout">>) = workout)
    IN [i \in 1..Len(picked) |-> picked[i].fields["bpm"].n]

RECURSIVE Total(_)
Total(numbers) == IF Len(numbers) = 0 THEN 0 ELSE Head(numbers) + Total(Tail(numbers))

\* the mean of the numbers, null for none of them
MeanOrNull(numbers) ==
    IF Len(numbers) = 0 THEN JNull
    ELSE [t |-> "fraction", num |-> Total(numbers), den |-> Len(numbers)]

\* C21: get_heart_rate_data returns four outputs, the overall maximum and
\* minimum bpm and the mean bpm of the workout readings and of all other
\* readings; all four are null for an empty reading set, and a mean over no
\* reading is null, not a not-a-number value.
C21_HeartRateAggregates ==
    (SummaryOfCollection /\ tin.tool = "get_heart_rate_data") =>
        LET readings == tin.api.v.fields["data"].items
            all == [i \in 1..Len(readings) |-> readings[i].fields["bpm"].n]
        IN /\ tout.result.kind = "return" /\ tout.result.type = "dict"
           /\ DOMAIN tout.result.v =
                  {"max_bpm", "min_bpm", "average_bpm_workout", "average_bpm_non_workout"}
           /\ tout.result.v.average_bpm_workout = MeanOrNull(BpmOf(readings, TRUE))
           /\ tout.result.v.average_bpm_non_workout = MeanOrNull(BpmOf(readings, FALSE))
           /\ IF Len(readings) = 0
              THEN tout.result.v.max_bpm = JNull /\ tout.result.v.min_bpm = JNull
              ELSE /\ tout.result.v.max_bpm.t = "num" /\ tout.result.v.min_bpm.t = "num"
                   /\ \E i \in 1..Len(all) : all[i] = tout.result.v.max_bpm.n
                   /\ \E i \in 1..Len(all) : all[i] = tout.result.v.min_bpm.n
                   /\ \A i \in 1..Len(all) :
                          tout.result.v.min_bpm.n <= all[i] /\ all[i] <= tout.result.v.max_bpm.n

\* ------------------------------------------------------------------ C22
Catalog ==
    {"get_sleep_data", "get_stress_data", "get_heart_rate_data",
     "get_Andrew_Huberman_Insights"}

\* C22: no tool of the catalog lets an exception escape: every call returns,
\* and a call whose external request failed returns a non-empty diagnostic
\* string.
C22_ToolsNeverRaise ==
    (tin.tool \in Catalog /\ tout.done) =>
        /\ tout.result.kind = "return"
        /\ ~tin.api.ok => (tout.result.type = "str" /\ Len(tout.result.v) > 0)

\* ------------------------------------------------------------------ C23
\* C23: in the knowledge tools every failure of the embedding or index
\* backend, of whatever exception kind, surfaces as the one failure kind with
\* the message "Pinecone Server Error", and never as a returned result (as a
\* query with zero matches is).
C23_OneBackendFailureKind ==
    ( /\ tin.tool \in {"get_Andrew_Huberman_Insights", "get_insights"}
      /\ tout.done /\ ~tin.api.ok ) =>
        /\ tout.result.kind = "raise"
        /\ tout.result.error = "RuntimeError"
        /\ tout.result.message = "Pinecone Server Error"

\* ------------------------------------------------------------------ C24
IsPreferencesMessage(m) ==
    m.role = "system" /\ Len(m.content) > 0 /\ m.content[1] = "User preferences: "

\* the stored preferences of the request's user are absent or null
NoStoredPreferences(r) ==
    \/ ~users_staging[inp[r].user_id].exists
    \/ users_staging[inp[r].user_id].preferences.tag = "None"

\* C24: when the stored preferences of the user are absent or null, run adds
\* no preferences message to the conversation state, and the logging of the
\* request does not fail on the preferences value.
C24_NoPreferencesTolerated ==
    \A r \in Requests :
        (pc[r] # "idle" /\ NoStoredPreferences(r)) =>
            /\ \A i \in 1..Len(message_history[r]) :
                   ~IsPreferencesMessage(message_history[r][i])
            /\ users_staging[inp[r].user_id].exists => outcome[r] # Raised("TypeError")

\* ------------------------------------------------------------------ C25
Announces(event, id) ==
    IsAnnouncement(event) /\ \E k \in 1..Len(event.tool_calls) : event.tool_calls[k].id = id

\* every tool-result event of the log follows an announcement of its call
ResultsAnnounced(ev) ==
    \A j \in 1..Len(ev) :
        IsToolEvent(ev[j]) => \E i \in 1..(j - 1) : Announces(ev[i], ev[j].tool_call_id)

\* every announcement event of the log lists at least one tool call
AnnouncementsCarryCalls(ev) ==
    \A j \in 1..Len(ev) : IsAnnouncement(ev[j]) => ev[j].tool_calls # << >>

\* C25: in every InteractionLog written by log_message each tool-result event
\* is preceded by an announcement event listing a tool call with the same id,
\* and an announcement event is logged only for assistant messages that carry
\* tool-call requests.
C25_ResultsFollowAnnouncements ==
    \A l \in 1..Len(logger_final) :
        /\ ResultsAnnounced(logger_final[l].response)
        /\ AnnouncementsCarryCalls(logger_final[l].response)

\* ------------------------------------------------------------------ C26
\* values a device credential can take
Credentials == {"k1", "k2", "k3"}

rekey_content(content, old, new) ==
    [i \in 1..Len(content) |-> IF content[i] = old THEN new ELSE content[i]]

rekey_args(args, old, new) ==
    IF "user_key" \in DOMAIN args /\ args.user_key = old
    THEN [args EXCEPT !.user_key = new] ELSE args

\* the conversation of the same request run with another credential
rekey(ms, old, new) ==
    [i \in 1..Len(ms) |->
        [ms[i] EXCEPT !.content = rekey_content(@, old, new),
                      !.tool_calls = [k \in 1..Len(@) |->
                          [@[k] EXCEPT !.args = rekey_args(@, old, new)]]]]

\* the logged tool-call arguments, event by event
LoggedArguments(log) ==
    [j \in 1..Len(log.response) |->
        IF IsAnnouncement(log.response[j])
        THEN [k \in 1..Len(log.response[j].tool_calls) |->
                 log.response[j].tool_calls[k].function.arguments]
        ELSE << >>]

KeysRedacted(log) ==
    \A j \in 1..Len(log.response) :
        \A k \in 1..Len(LoggedArguments(log)[j]) :
            LET arguments == LoggedArguments(log)[j][k]
            IN "user_key" \in DOMAIN arguments => arguments.user_key = "USER_KEY"

ContextWithout(log, key) ==
    \A i \in 1..Len(log.message_history) :
        \A t \in 1..Len(log.message_history[i].content) :
            log.message_history[i].content[t] # key

LogWrittenBy(r) ==
    /\ pc[r] = "finalize" /\ pc'[r] = "done"
    /\ Len(logger_final') = Len(logger_final) + 1

\* C26: the InteractionLog written for a request holds the placeholder
\* "USER_KEY" in every logged tool-call argument named user_key and in the
\* logged identity entry, and the logged tool-call arguments and context
\* entries are the same for the request run with any other credential.
C26_CredentialNotLogged ==
    [][\A r \in Requests :
          LogWrittenBy(r) =>
              LET log == Last(logger_final')
                  key == users_staging[inp[r].user_id].access_token
              IN /\ KeysRedacted(log)
                 /\ ContextWithout(log, key)
                 /\ \A other \in Credentials :
                       LET twin == log_message(inp[r].query, Last(messages[r]), chatml[r],
                                               query_idx[r], rekey(messages[r], key, other),
                                               user_spec_of_run, user_preferences[r])
                       IN /\ LoggedArguments(twin) = LoggedArguments(log)
                          /\ twin.message_history = log.message_history]_vars

\* a log announces a device-tool call, whose arguments name user_key
C26_Witness ==
    \E l \in 1..Len(logger_final) :
        \E j \in 1..Len(logger_final[l].response) :
            /\ IsAnnouncement(logger_final[l].response[j])
            /\ \E k \in 1..Len(logger_final[l].response[j].tool_calls) :
                  "user_key" \in DOMAIN logger_final[l].response[j].tool_calls[k].function.arguments

\* ================================================= the device data source
\* DataSources/oura_data_aggregation.py:5-9
BASEURL == "https://api.ouraring.com/v2/"
SLEEPURL == "usercollection/daily_sleep"
STRESSURL == "usercollection/daily_stress"
HRURL == "usercollection/heartrate"
MAXRETRY == 3

\* Device.OURA_RING
OURA_RING == "Oura Ring"

\* fastapi.HTTPException(status_code, detail)
HTTPException(status_code, detail) ==
    [t |-> "HTTPException", status_code |-> status_code, detail |-> detail]
isinstance_HTTPException(content) == content.t = "HTTPException"

\* what requests.get comes to: a response with a status and a body, or an
\* exception of the transport
NotJson == [t |-> "invalid"]
HttpResponse(status_code, body) == [kind |-> "response", status_code |-> status_code, body |-> body]
TransportError(error) == [kind |-> "exception", error |-> error]

\* an exception object leaving a call
RaisedException(exception) == [kind |-> "raise", error |-> "HTTPException", exception |-> exception]

\* response.raise_for_status(): HTTPError for the statuses 400..599
raise_for_status(response) == response.status_code >= 400 /\ response.status_code < 600

\* response.json()[key]
json_item(response, key) ==
    IF response.body.t = "invalid" THEN Err("JSONDecodeError")
    ELSE IF response.body.t # "dict" THEN Err("TypeError")
    ELSE subscript(response.body, key)

\* str(http_error) of requests: status, reason and url of the response
str_of_http_error(response, URL) ==
    <<Text(ToString(response.status_code)), Text(" Error: "), Text("reason"),
      Text(" for url: "), Text(URL)>>

\* HttpGETDevice.send_request, get_request_devices.py:21-43
send_request(deviceType, URL, http) ==
    IF http.kind = "exception" THEN RaisedWith(http.error, << >>)
    ELSE IF ~raise_for_status(http)
    THEN LET data == json_item(http, "data")
         IN IF data.ok THEN ReturnValue("json", data.v) ELSE RaisedWith(data.error, << >>)
    ELSE IF http.status_code \in {400, 401, 403, 422, 429}
    THEN LET message == json_item(http, "message")
         IN IF message.ok
            THEN RaisedException(HTTPException(http.status_code,
                     <<Text(deviceType), Text(" API Client Error "),
                       Text(ToString(http.status_code)), Text(": "), Rendered(message.v)>>))
            ELSE RaisedWith(message.error, << >>)
    ELSE IF http.status_code >= 500 /\ http.status_code < 600
    THEN RaisedException(HTTPException(http.status_code,
             <<Text(deviceType), Text(" API Server Error "),
               Text(ToString(http.status_code)), Text(": Try again later.")>>))
    ELSE RaisedException(HTTPException(500, <<Text("Unexpected Error: ")>>
                                            \o str_of_http_error(http, URL)))

\* ---- OuraData.query_execution, oura_data_aggregation.py:61-95
execution_strings == <<SLEEPURL, STRESSURL, HRURL>>
response_keys == <<"sleep_data", "stress_data", "heart_rate_data">>

\* datetime.strptime(date, "%Y-%m-%d") accepts the date
IsoDates == {"2026-11-03", "2026-11-06"}
strptime_ok(date) == date \in IsoDates

\* result_data[key] = content
set_item(dict, key, content) ==
    [k \in DOMAIN dict \cup {key} |-> IF k = key THEN content ELSE dict[k]]

\* the locals of query_execution at the head of the loop over the endpoints
OuraLocals ==
    [pc |-> "send", index |-> 1, attempt |-> 0, content |-> JNull,
     result_data |-> [k \in {} |-> JNull], requests |-> << >>,
     error |-> [kind |-> "none"]]

\* an exception leaves query_execution
OuraRaise(locals, raised) == [locals EXCEPT !.pc = "raised", !.error = raised]

\* ---- the requests and the answers of the device API
Statuses == {400, 401, 403, 404, 422, 429, 500, 503}
ErrorBodies == {MakeDict([message |-> JStr(<<"invalid token">>)]), EmptyDict, NotJson}
DataBodies ==
    {MakeDict([data |-> JList(<< >>)]), MakeDict([data |-> JList(<<JNum(71)>>)]),
     EmptyDict, JList(<< >>), NotJson}
TransportErrors == {"ConnectionError", "Timeout"}
HttpOutcomes ==
    {HttpResponse(200, b) : b \in DataBodies}
    \cup {HttpResponse(st, b) : st \in Statuses, b \in ErrorBodies}
    \cup {TransportError(x) : x \in TransportErrors}

\* str(datetime.now()), the default of OuraData's dates
DefaultDate == "2026-11-06 09:30:00.000000"
OuraCalls ==
    {[tool |-> "query_execution", start_date |-> d, end_date |-> "2026-11-06",
      key |-> KeyOf("u1")] : d \in IsoDates \cup {DefaultDate}}

InitOura ==
    /\ agent = AgentInit
    /\ logger_final = << >>
    /\ users_staging = [u \in Users |-> Row(u, List(PrefsOf(u)))]
    /\ inp = [r \in Requests |-> Input(r, <<<< >>, << >>>>)]
    /\ pc = [r \in Requests |-> "idle"]
    /\ LocalsInit
    /\ HistOff
    /\ evals = [pc |-> "off"]
    /\ tin \in OuraCalls
    /\ tout = OuraLocals

\* oura_data_aggregation.py:66-84 and 89: the parameters of the endpoint and
\* one send_request, the first of the endpoint or a retry
OuraSendRequest ==
    /\ tin.tool = "query_execution" /\ tout.pc = "send"
    /\ LET unique_url == execution_strings[tout.index]
           URL == <<BASEURL, unique_url>>
       IN IF unique_url = HRURL /\ ~(strptime_ok(tin.start_date) /\ strptime_ok(tin.end_date))
          THEN tout' = OuraRaise(tout, RaisedWith("ValueError", << >>))
          ELSE \E http \in HttpOutcomes :
                  LET sent == send_request(OURA_RING, URL, http)
                      request == [url |-> unique_url, http |-> http, sent |-> sent]
                  IN tout' = IF sent.kind = "raise"
                             THEN [OuraRaise(tout, sent) EXCEPT !.requests = Append(@, request)]
                             ELSE [tout EXCEPT !.pc = "sent", !.content = sent.v,
                                               !.requests = Append(@, request)]
    /\ UNCHANGED <<reqvars, hq, hr, hout, evals, tin>>

\* oura_data_aggregation.py:86-95: retry, raise, or keep the content and go on
OuraHandleContent ==
    /\ tin.tool = "query_execution" /\ tout.pc = "sent"
    /\ tout' =
         IF isinstance_HTTPException(tout.content)
         THEN IF tout.attempt < MAXRETRY
              THEN [tout EXCEPT !.pc = "send", !.attempt = @ + 1]
              ELSE OuraRaise(tout, RaisedException(tout.content))
         ELSE LET stored == set_item(tout.result_data, response_keys[tout.index], tout.content)
              IN IF tout.index = Len(execution_strings)
                 THEN [tout EXCEPT !.pc = "returned", !.result_data = stored]
                 ELSE [tout EXCEPT !.pc = "send", !.index = @ + 1, !.attempt = 0,
                                   !.result_data = stored]
    /\ UNCHANGED <<reqvars, hq, hr, hout, evals, tin>>

NextOura == OuraSendRequest \/ OuraHandleContent
SpecOura == InitOura /\ [][NextOura]_vars

\* ------------------------------------------------------------------ C27
RequestsOf(url) == {i \in 1..Len(tout.requests) : tout.requests[i].url = url}
RequestFailed(request) == request.sent.kind = "raise"

\* C27: in query_execution a failing request is retried up to MAXRETRY times,
\* stopping at the first success; the error is raised only after the initial
\* attempt and all MAXRETRY retries have failed; on a raise no result is
\* returned and the remaining endpoints are not requested; a returned result
\* holds exactly the keys sleep_data, stress_data and heart_rate_data.
C27_BoundedRetry ==
    /\ \A i \in 1..Len(tout.requests) :
          \* the endpoints in order, and nothing after a success of an endpoint
          /\ \A j \in (i + 1)..Len(tout.requests) :
                \/ /\ tout.requests[i].url = tout.requests[j].url
                   /\ RequestFailed(tout.requests[i])
                \/ /\ tout.requests[i].url # tout.requests[j].url
                   /\ ~RequestFailed(tout.requests[i])
          /\ Cardinality(RequestsOf(tout.requests[i].url)) <= MAXRETRY + 1
    /\ (tout.pc = "raised" /\ tout.requests # << >> /\ RequestFailed(Last(tout.requests))) =>
          /\ Cardinality(RequestsOf(Last(tout.requests).url)) = MAXRETRY + 1
          /\ \A i \in RequestsOf(Last(tout.requests).url) : RequestFailed(tout.requests[i])
    /\ tout.pc = "raised" =>
          \A k \in (tout.index + 1)..Len(execution_strings) :
              RequestsOf(execution_strings[k]) = {}
    /\ tout.pc = "returned" =>
          DOMAIN tout.result_data = {"sleep_data", "stress_data", "heart_rate_data"}

\* ------------------------------------------------------------------ C28
\* the device request failed: no response, or a response with an error status
DeviceRequestFailed(http) == http.kind = "exception" \/ raise_for_status(http)

\* the body of the response does not show in the detail
NoBodyContent(detail) == \A i \in 1..Len(detail) : "rendered" \notin DOMAIN detail[i]

\* the detail ends with the message of the device API
CarriesMessage(detail, http) ==
    /\ http.body.t = "dict" /\ "message" \in DOMAIN http.body.fields
    /\ detail # << >> /\ Last(detail) = Rendered(http.body.fields.message)

MapsToHTTPException(http, sent) ==
    /\ sent.kind = "raise" /\ sent.error = "HTTPException"
    /\ http.kind = "response" =>
          LET status == http.status_code
              raised == sent.exception
          IN /\ status \in {400, 401, 403, 422, 429} =>
                   raised.status_code = status /\ CarriesMessage(raised.detail, http)
             /\ (status >= 500 /\ status <= 599) =>
                   /\ raised.status_code = status
                   /\ NoBodyContent(raised.detail)
                   /\ Last(raised.detail) = Text(": Try again later.")
             /\ (status \notin {400, 401, 403, 422, 429} /\ status < 500) =>
                   raised.status_code = 500

\* C28: send_request maps every failed device request to one HTTPException:
\* the statuses 400, 401, 403, 422 and 429 keep the status and carry the
\* device API's message, a status 500..599 keeps the status and carries only
\* the fixed "Try again later." text, any other error status becomes 500, and
\* a failure of the transport is surfaced as an HTTPException as well.
C28_OneFailureKind ==
    \A i \in 1..Len(tout.requests) :
        DeviceRequestFailed(tout.requests[i].http) =>
            MapsToHTTPException(tout.requests[i].http, tout.requests[i].sent)

\* ------------------------------------------------------------------ C29
\* C29: whenever check_response marks a metric family available for a
\* response, sleep_analysis computes that family's output from the first
\* record without raising: the maximum of the heart-rate items, the minimum
\* and maximum of the hrv items and the movement histogram are defined.
C29_AvailableFamiliesComputed ==
    AnalysedNight =>
        LET record == tin.api.v.fields["data"].items[1]
            checks == check_response(tin.api.v, "oura", "analysis")
        IN checks.ok =>
              /\ checks.v.analysis.heart_rate => heart_rate_items(record, TRUE).ok
              /\ checks.v.analysis.hrv => hrv_items(record, TRUE).ok
              /\ checks.v.analysis.movement => movement_items(record, TRUE).ok
              /\ ( /\ bedtime_items(record).ok /\ subscript(record, "readiness").ok
                   /\ duration_items(record).ok ) => tout.result.kind = "return"

\* ======================================================= the backend API
\* most /login/ and /query/ requests of a run
MaxBackendRequests == 4

\* backend/main.py:10
INIT_ERROR_MESSAGE == "ERROR: Please ensure your device keys are properly documented"

\* a component made by the init_personal of the n-th request, or not yet made
Unset == [login |-> 0, user |-> ""]
Component(n, username) == [login |-> n, user |-> username]

\* what the collaborators of init_personal come to: every step succeeds, the
\* username is not in user_db.json (KeyError in retrieve_keys), PineconeClass
\* raises its RuntimeError, the device request raises APICallError, or the
\* device request raises another exception
LoginOutcomes == {"success", "KeyError", "RuntimeError", "APICallError", "ValueError"}

\* RAGChain.init_personal, rag_chain.py:19-35: the chain object after the
\* call, and the pair returned or the exception raised
init_personal(self, n, username, step) ==
    IF step = "KeyError" THEN [self |-> self, result |-> Err("KeyError")]
    ELSE IF step = "RuntimeError" THEN [self |-> self, result |-> Err("RuntimeError")]
    ELSE LET with_db == [self EXCEPT !.db = Component(n, username)]
         IN IF step = "APICallError"
            THEN [self |-> with_db, result |-> Ok(<<FALSE, "API Call Error">>)]
            ELSE IF step = "ValueError"
            THEN [self |-> with_db, result |-> Err("ValueError")]
            ELSE [self |-> [with_db EXCEPT !.prompt = Component(n, username)],
                  result |-> Ok(<<TRUE, "Success">>)]

\* main.py:20-22
BackendInit ==
    [chain_obj |-> [db |-> Unset, prompt |-> Unset],
     initializationComplete |-> FALSE,
     requests |-> 0, succeeded |-> {},
     last |-> [endpoint |-> "none"]]

BackendUsers == {"u1", "u2"}

InitBackend ==
    /\ agent = AgentInit
    /\ logger_final = << >>
    /\ users_staging = [u \in Users |-> Row(u, List(PrefsOf(u)))]
    /\ inp = [r \in Requests |-> Input(r, <<<< >>, << >>>>)]
    /\ pc = [r \in Requests |-> "idle"]
    /\ LocalsInit
    /\ HistOff
    /\ evals = [pc |-> "off"]
    /\ tin = [tool |-> "backend"]
    /\ tout = BackendInit

\* GET /login/, main.py:31-37
Login ==
    /\ tin.tool = "backend" /\ tout.requests < MaxBackendRequests
    /\ \E username \in BackendUsers, step \in LoginOutcomes :
          LET n == tout.requests + 1
              call == init_personal(tout.chain_obj, n, username, step)
              success == call.result.ok /\ call.result.v[1]
          IN tout' = [chain_obj |-> call.self,
                      initializationComplete |-> tout.initializationComplete \/ success,
                      requests |-> n,
                      succeeded |-> IF success THEN tout.succeeded \cup {n}
                                    ELSE tout.succeeded,
                      last |-> [endpoint |-> "login", success |-> success,
                                response |-> IF ~call.result.ok THEN call.result.error
                                             ELSE IF success THEN "Success"
                                             ELSE call.result.v[2]]]
    /\ UNCHANGED <<reqvars, hq, hr, hout, evals, tin>>

\* POST /query/, main.py:45-57; chain.invoke answers or raises
PostQuery ==
    /\ tin.tool = "backend" /\ tout.requests < MaxBackendRequests
    /\ \E invoked \in {"answer", "Exception"} :
          tout' = [tout EXCEPT
                     !.requests = @ + 1,
                     !.last = IF ~tout.initializationComplete
                              THEN [endpoint |-> "query", chain |-> FALSE,
                                    response |-> INIT_ERROR_MESSAGE]
                              ELSE [endpoint |-> "query", chain |-> TRUE,
                                    db |-> tout.chain_obj.db,
                                    prompt |-> tout.chain_obj.prompt,
                                    response |-> invoked]]
    /\ UNCHANGED <<reqvars, hq, hr, hout, evals, tin>>

NextBackend == Login \/ PostQuery
SpecBackend == InitBackend /\ [][NextBackend]_vars

\* ------------------------------------------------------------------ C30
QueryGated ==
    (tout.last.endpoint = "query" /\ tout.succeeded = {}) =>
        ~tout.last.chain /\ tout.last.response = INIT_ERROR_MESSAGE

OneLoginPerQuery ==
    (tout.last.endpoint = "query" /\ tout.last.chain) =>
        /\ tout.last.db.login = tout.last.prompt.login
        /\ tout.last.db.login \in tout.succeeded

FailedLoginChangesNothing ==
    (tout'.last.endpoint = "login" /\ tout'.requests # tout.requests /\ ~tout'.last.success) =>
        /\ tout'.chain_obj = tout.chain_obj
        /\ tout'.initializationComplete = tout.initializationComplete

\* C30: a /query/ returns the initialization error without building the chain
\* if no /login/ succeeded before it; a /query/ answered by the chain uses the
\* retriever and the prompt data set by one and the same successful /login/;
\* a failed /login/ neither enables queries nor changes the components used
\* by later queries.
C30_QueriesUseOneLogin ==
    /\ [](QueryGated /\ OneLoginPerQuery)
    /\ [][FailedLoginChangesNothing]_vars

====
